---- MODULE Spec2Model ----
(***************************************************************************)
(* A model of scramble's security validation and metadata pipeline:        *)
(* SecurityValidator (security_validators.py) and MetadataHandler          *)
(* (metadata.py), run against a small POSIX-like filesystem with           *)
(* directories, regular files and symbolic links.                          *)
(*                                                                         *)
(* A path string is a sequence of components ("a/../b" is <<"a","..","b">>);*)
(* the empty string is <<>>; a relative path is taken from Cwd.  A location *)
(* is an absolute, link-free sequence of names from the root <<>>.         *)
(***************************************************************************)
EXTENDS Integers, Sequences, FiniteSets, TLC

VARIABLES
    fs,       \* the filesystem: location -> node
    env,      \* which optional backends imported: [hasPIL, hasPiexif]
    pc,       \* position of the one caller: "idle", a step of a call, or "done"
    call,     \* the call in progress: [op, inp, out]
    doc,      \* extract_metadata's local `metadata` dict while it is built
    log,      \* the decoder / strip routines invoked so far by this call
    ret,      \* what the finished call handed to its caller
    pre,      \* the filesystem as it was when the call began
    written,  \* the locations this call has opened for writing
    prev,     \* the previous call and its result, where the caller kept them
    budget,   \* calls the caller may still make
    heap,     \* the set objects: the handler's and the validator's
              \* supported_formats, then the sets handed out to callers
    held,     \* the set objects the caller holds a reference to
    handles,  \* the file and image handles the core holds open, innermost last
    now,      \* time.time(), in seconds
    limiter,  \* a RateLimiter: [max_requests, window_seconds, requests]
    cache,    \* a FileHashCache: [max_size, cache, access_order]
    monitor,  \* a SecurityMonitor: [suspicious_events, blocked_files]
    current_operations,   \* SecurityHardening.current_operations
    callers,  \* where each caller of the SecurityHardening object stands
    win       \* the window: current_image_path and its open save dialogs

hardeningVars == <<now, limiter, cache, monitor, current_operations, callers>>

vars == <<fs, env, pc, call, doc, log, ret, pre, written, prev, budget, heap, held,
          handles, hardeningVars, win>>

(***************************************************************************)
(* Paths                                                                   *)
(***************************************************************************)
NoneP == <<"<None>">>          \* Python's None passed where a path is expected
EmptyP == <<>>                 \* the empty string ""
Root == <<>>
Cwd == <<"w">>

Parent(loc) == IF loc = <<>> THEN <<>> ELSE SubSeq(loc, 1, Len(loc) - 1)
BaseName(loc) == IF loc = <<>> THEN "" ELSE loc[Len(loc)]

Absent == [kind |-> "none"]
Dir(w) == [kind |-> "dir", writable |-> w]
Link(t) == [kind |-> "link", target |-> t]

Node(f, loc) == IF loc \in DOMAIN f THEN f[loc] ELSE Absent

\* os.path.abspath: join with the working directory, then normpath, which
\* folds ".." lexically, without looking at the filesystem.
RECURSIVE NormPath(_, _)
NormPath(acc, rest) ==
    IF rest = <<>> THEN acc
    ELSE IF Head(rest) = ".." THEN NormPath(Parent(acc), Tail(rest))
    ELSE NormPath(Append(acc, Head(rest)), Tail(rest))

AbsPath(p) == NormPath(Cwd, p)

\* posixpath._joinrealpath (non-strict): resolves each symbolic link as it is
\* met, folds ".." against the resolved prefix, keeps components that do not
\* exist.  Link targets are absolute.
RECURSIVE JoinRealPath(_, _, _)
JoinRealPath(f, path, rest) ==
    IF rest = <<>> THEN path
    ELSE IF Head(rest) = ".." THEN JoinRealPath(f, Parent(path), Tail(rest))
    ELSE LET newpath == Append(path, Head(rest)) IN
         IF Node(f, newpath).kind = "link"
         THEN JoinRealPath(f, Root, Node(f, newpath).target \o Tail(rest))
         ELSE JoinRealPath(f, newpath, Tail(rest))

\* os.path.realpath of a relative path string
RealPath(f, p) == JoinRealPath(f, Cwd, p)
\* os.path.realpath of an absolute path (a location that may still hold links)
RealPathAbs(f, loc) == JoinRealPath(f, Root, loc)

\* The kernel's path walk (stat, open): every component but the last must be
\* a directory after following links; the result is where the last component
\* lands, which may not exist yet (open for writing creates it).
NoLoc == <<"<ENOENT>">>
RECURSIVE Walk(_, _, _)
Walk(f, path, rest) ==
    IF rest = <<>> THEN path
    ELSE IF Node(f, path).kind # "dir" THEN NoLoc
    ELSE IF Head(rest) = ".." THEN Walk(f, Parent(path), Tail(rest))
    ELSE LET newpath == Append(path, Head(rest)) IN
         IF Node(f, newpath).kind = "link"
         THEN Walk(f, Root, Node(f, newpath).target \o Tail(rest))
         ELSE Walk(f, newpath, Tail(rest))

\* where the kernel lands for a relative path string ("" is ENOENT)
Lookup(f, p) == IF p = EmptyP THEN NoLoc ELSE Walk(f, Cwd, p)
LookupAbs(f, loc) == Walk(f, Root, loc)

\* os.path.exists
Exists(f, p) == Lookup(f, p) # NoLoc /\ Node(f, Lookup(f, p)).kind # "none"
ExistsAbs(f, loc) == LookupAbs(f, loc) # NoLoc /\ Node(f, LookupAbs(f, loc)).kind # "none"

(***************************************************************************)
(* File contents                                                           *)
(*                                                                         *)
(* A regular file is described by what the code and its two libraries can  *)
(* observe of it: permission, size, leading bytes, what the image decoder  *)
(* makes of it, and its EXIF block.                                        *)
(***************************************************************************)
IFDs == <<"0th", "Exif", "GPS", "1st", "Interop">>          \* metadata.py:98
IFDSet == {IFDs[i] : i \in 1..Len(IFDs)}

NoTags == [i \in IFDSet |-> <<>>]

\* img: what Image.open reports (ok = FALSE: it raises); icc: an embedded
\* colour profile.  exif: ok = FALSE when the EXIF codec cannot parse the file;
\* bytes = length of the EXIF segment; ifd = tag -> raw value, per IFD.
Img(w, h, m, fmt) == [ok |-> TRUE, width |-> w, height |-> h, mode |-> m, format |-> fmt, icc |-> FALSE]
WithICC(im) == [im EXCEPT !.icc = TRUE]
NoImg == [ok |-> FALSE, width |-> 0, height |-> 0, mode |-> "", format |-> "", icc |-> FALSE]
Exif(ok, n, tags) == [ok |-> ok, bytes |-> n, ifd |-> tags]
NoExif == Exif(TRUE, 0, NoTags)

File(r, sz, hd, im, ex) ==
    [kind |-> "file", readable |-> r, size |-> sz, header |-> hd, img |-> im, exif |-> ex]

\* What open(path, "wb+") leaves when the write that follows it fails.
Truncated == File(TRUE, 0, "short", NoImg, Exif(FALSE, 0, NoTags))

(***************************************************************************)
(* SecurityValidator                                                       *)
(***************************************************************************)
supported_formats == {".jpg", ".jpeg", ".tiff", ".tif"}     \* security_validators.py:27
supported_mimes == {"image/jpeg", "image/tiff"}             \* security_validators.py:28
\* (variant: the ceiling counted in decimal megabytes)
max_file_size_decimal == 100 * 1000 * 1000

max_file_size == 100 * 1024 * 1024                          \* security_validators.py:29
max_dimension == 50000
max_pixels == 100000000
valid_modes == {"RGB", "RGBA", "L", "P", "CMYK", "YCbCr", "LAB", "HSV"}

\* os.path.splitext(name)[1] for the names of this model
SplitExt(name) ==
    CASE name \in {"a.jpg", "c.jpg", "d.jpg", "l.jpg"} -> ".jpg"
      [] name \in {"t.tif", "c.tif"} -> ".tif"
      [] name = "P.JPG" -> ".JPG"
      [] name = "x.png" -> ".png"
      [] OTHER -> ""

\* str.lower on an extension
Lower(ext) ==
    CASE ext = ".JPG" -> ".jpg"
      [] OTHER -> ext

\* mimetypes.guess_type(path)[0]: decided by the extension, case-insensitively
GuessType(loc) ==
    CASE Lower(SplitExt(BaseName(loc))) \in {".jpg", ".jpeg"} -> "image/jpeg"
      [] Lower(SplitExt(BaseName(loc))) \in {".tif", ".tiff"} -> "image/tiff"
      [] Lower(SplitExt(BaseName(loc))) = ".png" -> "image/png"
      [] OTHER -> "<None>"

\* SecurityValidator._is_supported_format
IsSupportedFormatV(loc) ==
    /\ loc # <<>>
    /\ Lower(SplitExt(BaseName(loc))) \in supported_formats

\* (variant: either magic number is accepted under any name)
ValidateFileHeader_anyMagic(f, loc) ==
    LET header == Node(f, loc).header IN
    CASE header = "short" -> FALSE
      [] header = "jpeg" -> TRUE
      [] header = "tiff" -> TRUE
      [] OTHER -> FALSE

\* SecurityValidator._validate_file_header: header is what the first 16 bytes
\* start with: "jpeg" (FF D8 FF), "tiff" (II*\0 or MM\0*), "junk", or "short"
\* (fewer than 4 bytes).
ValidateFileHeader(f, loc) ==
    LET header == Node(f, loc).header IN
    CASE header = "short" -> FALSE
      [] header = "jpeg" -> Lower(SplitExt(BaseName(loc))) \in {".jpg", ".jpeg"}
      [] header = "tiff" -> Lower(SplitExt(BaseName(loc))) \in {".tiff", ".tif"}
      [] OTHER -> FALSE

\* (variant: no ceiling on the pixel count)
ValidateImageProperties_noPixelCap(f, e, loc) ==
    LET img == Node(f, loc).img IN
    IF ~e.hasPIL THEN TRUE
    ELSE IF ~img.ok THEN FALSE
    ELSE IF img.width <= 0 \/ img.height <= 0 THEN FALSE
    ELSE IF img.width > max_dimension \/ img.height > max_dimension THEN FALSE
    ELSE IF img.mode \notin valid_modes THEN FALSE
    ELSE IF img.format \notin {"JPEG", "TIFF"} THEN FALSE
    ELSE TRUE

\* (variant: without the image decoder the check fails)
ValidateImageProperties_failsClosed(f, e, loc) ==
    LET img == Node(f, loc).img IN
    IF ~e.hasPIL THEN FALSE
    ELSE IF ~img.ok THEN FALSE
    ELSE IF img.width <= 0 \/ img.height <= 0 THEN FALSE
    ELSE IF img.width > max_dimension \/ img.height > max_dimension THEN FALSE
    ELSE IF img.width * img.height > max_pixels THEN FALSE
    ELSE IF img.mode \notin valid_modes THEN FALSE
    ELSE IF img.format \notin {"JPEG", "TIFF"} THEN FALSE
    ELSE TRUE

\* SecurityValidator._validate_image_properties
ValidateImageProperties(f, e, loc) ==
    LET img == Node(f, loc).img IN
    IF ~e.hasPIL THEN TRUE
    ELSE IF ~img.ok THEN FALSE
    ELSE IF img.width <= 0 \/ img.height <= 0 THEN FALSE
    ELSE IF img.width > max_dimension \/ img.height > max_dimension THEN FALSE
    ELSE IF img.width * img.height > max_pixels THEN FALSE
    ELSE IF img.mode \notin valid_modes THEN FALSE
    ELSE IF img.format \notin {"JPEG", "TIFF"} THEN FALSE
    ELSE TRUE

\* os.access(path, os.W_OK) on an existing entry
Writable(node) == IF node.kind = "dir" THEN node.writable ELSE node.kind = "file"

PASS == "<pass>"          \* validate_file_security / validate_output_path returning None

\* (variant: the extension is checked before the size)
ValidateFileSecurity_extensionFirst(f, e, p) ==
    IF p = NoneP THEN "File validation failed"
    ELSE IF ~Exists(f, p) THEN "File does not exist"
    ELSE LET resolved_path == RealPath(f, p) IN
         IF ~ExistsAbs(f, resolved_path) THEN "Invalid file path"
         ELSE IF Node(f, resolved_path).kind # "file" THEN "Path is not a regular file"
         ELSE IF ~Node(f, resolved_path).readable THEN "File is not readable"
         ELSE IF ~IsSupportedFormatV(resolved_path) THEN "Unsupported file format"
         ELSE IF Node(f, resolved_path).size = 0 THEN "File is empty"
         ELSE IF Node(f, resolved_path).size > max_file_size THEN "File too large (max 100MB)"
         ELSE IF GuessType(resolved_path) \notin supported_mimes THEN "Invalid MIME type for file"
         ELSE IF ~ValidateFileHeader(f, resolved_path)
              THEN "Invalid file header - possible file type mismatch"
         ELSE IF ~ValidateImageProperties(f, e, resolved_path)
              THEN "Invalid or potentially malicious image"
         ELSE PASS

\* (variant: extension and MIME type are read off the path as it was given)
ValidateFileSecurity_onString(f, e, p) ==
    IF p = NoneP THEN "File validation failed"
    ELSE IF ~Exists(f, p) THEN "File does not exist"
    ELSE LET resolved_path == RealPath(f, p) IN
         IF ~ExistsAbs(f, resolved_path) THEN "Invalid file path"
         ELSE IF Node(f, resolved_path).kind # "file" THEN "Path is not a regular file"
         ELSE IF ~Node(f, resolved_path).readable THEN "File is not readable"
         ELSE IF Node(f, resolved_path).size = 0 THEN "File is empty"
         ELSE IF Node(f, resolved_path).size > max_file_size THEN "File too large (max 100MB)"
         ELSE IF ~IsSupportedFormatV(p) THEN "Unsupported file format"
         ELSE IF GuessType(p) \notin supported_mimes THEN "Invalid MIME type for file"
         ELSE IF ~ValidateFileHeader(f, resolved_path)
              THEN "Invalid file header - possible file type mismatch"
         ELSE IF ~ValidateImageProperties(f, e, resolved_path)
              THEN "Invalid or potentially malicious image"
         ELSE PASS

\* SecurityValidator.validate_file_security: the error message, or PASS.
ValidateFileSecurity(f, e, p) ==
    IF p = NoneP THEN "File validation failed"      \* os.path.exists(None) raises TypeError
    ELSE IF ~Exists(f, p) THEN "File does not exist"
    ELSE LET resolved_path == RealPath(f, p) IN
         IF ~ExistsAbs(f, resolved_path) THEN "Invalid file path"
         ELSE IF Node(f, resolved_path).kind # "file" THEN "Path is not a regular file"
         ELSE IF ~Node(f, resolved_path).readable THEN "File is not readable"
         ELSE IF Node(f, resolved_path).size = 0 THEN "File is empty"
         ELSE IF Node(f, resolved_path).size > max_file_size THEN "File too large (max 100MB)"
         ELSE IF ~IsSupportedFormatV(resolved_path) THEN "Unsupported file format"
         ELSE IF GuessType(resolved_path) \notin supported_mimes THEN "Invalid MIME type for file"
         ELSE IF ~ValidateFileHeader(f, resolved_path)
              THEN "Invalid file header - possible file type mismatch"
         ELSE IF ~ValidateImageProperties(f, e, resolved_path)
              THEN "Invalid or potentially malicious image"
         ELSE PASS

\* SecurityValidator.sanitize_path: "" for a falsy path, else
\* realpath(abspath(path)) as a location.  NoLoc stands for the "" result.
SanitizePath(f, p) ==
    IF p = EmptyP \/ p = NoneP THEN NoLoc
    ELSE RealPathAbs(f, AbsPath(p))

\* SecurityValidator.validate_output_path: the error message, or PASS.
ValidateOutputPath(f, output_path, input_path) ==
    IF output_path = EmptyP \/ output_path = NoneP THEN "Output path is empty"
    ELSE LET sanitized_output == SanitizePath(f, output_path) IN
         IF sanitized_output = NoLoc THEN "Invalid output path"
         ELSE LET output_dir == Parent(sanitized_output) IN
              IF ~ExistsAbs(f, output_dir) THEN "Output directory does not exist"
              ELSE IF ~Writable(Node(f, LookupAbs(f, output_dir)))
                   THEN "Output directory is not writable"
              ELSE IF input_path = NoneP THEN "Output path validation failed"
              ELSE IF RealPathAbs(f, sanitized_output) = RealPath(f, input_path)
                   THEN "Cannot overwrite input file"
              ELSE PASS

(***************************************************************************)
(* Value formatting (MetadataHandler.format_metadata_value)                *)
(*                                                                         *)
(* A raw value is [t, v]: t = "none"; "bytes" (v a sequence of 0..255);    *)
(* "str" (v a sequence of code points); "int"; "pow10" (the integer 10^v,  *)
(* for the one v of HugeInt); "tuple" and "list" (v a sequence of raw      *)
(* values).  Text is a sequence of code points.  The byte strings of this  *)
(* model hold no multi-byte UTF-8 sequence, so a byte string is valid      *)
(* UTF-8 iff every byte is below 128.                                      *)
(***************************************************************************)
NUL == 0
Whitespace == {9, 10, 11, 12, 13, 28, 29, 30, 31, 32, 133, 160}   \* str.isspace

RECURSIVE LStrip(_, _)
LStrip(s, chars) ==
    IF s # <<>> /\ Head(s) \in chars THEN LStrip(Tail(s), chars) ELSE s

RECURSIVE RStrip(_, _)
RStrip(s, chars) ==
    IF s # <<>> /\ s[Len(s)] \in chars THEN RStrip(SubSeq(s, 1, Len(s) - 1), chars) ELSE s

\* str.strip(chars)
Strip(s, chars) == RStrip(LStrip(s, chars), chars)

RECURSIVE Digits(_)
Digits(n) == IF n < 10 THEN <<48 + n>> ELSE Append(Digits(n \div 10), 48 + (n % 10))

\* str(n) for an integer
StrInt(n) == IF n < 0 THEN <<45>> \o Digits(0 - n) ELSE Digits(n)

Utf8Valid(b) == \A i \in 1..Len(b) : b[i] < 128

\* the largest e for which 10^e is within the range of a double, and the one
\* integer beyond that range the model's values hold
FloatMaxExp10 == 308
HugeInt == [t |-> "pow10", v |-> FloatMaxExp10 + 92]

IsInt(x) == x.t \in {"int", "pow10"}                     \* isinstance(x, int)
\* str(x) for an int of either representation
StrNumber(x) ==
    IF x.t = "int" THEN StrInt(x.v)
    ELSE [i \in 1..(x.v + 1) |-> IF i = 1 THEN 49 ELSE 48]

Abs(n) == IF n < 0 THEN 0 - n ELSE n
RECURSIVE Pow10(_)
Pow10(k) == IF k = 0 THEN 1 ELSE 10 * Pow10(k - 1)
\* the least k >= 1 with a * 10^k >= b, for 0 < a < b
RECURSIVE LeadShift(_, _)
LeadShift(a, b) == IF a * 10 >= b THEN 1 ELSE 1 + LeadShift(a * 10, b)
\* long division: k more digits of r / b appended to the digits m
RECURSIVE MoreDigits(_, _, _, _)
MoreDigits(m, r, b, k) ==
    IF k = 0 THEN [m |-> m, r |-> r]
    ELSE MoreDigits(m * 10 + ((r * 10) \div b), (r * 10) % b, b, k - 1)
\* round half to even on an exact remainder `twice`/2 out of `unit`
RoundHalfEven(m, twice, unit) ==
    IF twice > unit \/ (twice = unit /\ m % 2 = 1) THEN m + 1 ELSE m
\* m as exactly k digits
RECURSIVE FixedDigits(_, _)
FixedDigits(m, k) ==
    IF k = 0 THEN <<>> ELSE Append(FixedDigits(m \div 10, k - 1), 48 + (m % 10))
Zeros(k) == [i \in 1..k |-> 48]

\* the decimal exponent of a / b, for a, b > 0
Exp10(a, b) == IF a >= b THEN Len(Digits(a \div b)) - 1 ELSE 0 - LeadShift(a, b)

\* the first six significant digits of a / b as the integer m, and what is
\* left over: `twice`/2 out of `unit`
Leftover(dg, b) == [m |-> dg.m, twice |-> 2 * dg.r, unit |-> b]
SixDigits(a, b, e) ==
    IF e > 5
    THEN [m |-> (a \div b) \div Pow10(e - 5),
          twice |-> 2 * (((a \div b) % Pow10(e - 5)) * b + (a % b)),
          unit |-> Pow10(e - 5) * b]
    ELSE IF e >= 0 THEN Leftover(MoreDigits(a \div b, a % b, b, 5 - e), b)
    ELSE Leftover(MoreDigits(0, a * Pow10((0 - e) - 1), b, 6), b)

\* two-digit exponent, as printf writes it
ExpDigits(e) == IF Abs(e) < 10 THEN <<48>> \o Digits(Abs(e)) ELSE Digits(Abs(e))
DropZeros(digits) == RStrip(digits, {48})
Fraction(digits) == IF DropZeros(digits) # <<>> THEN <<46>> \o DropZeros(digits) ELSE <<>>

\* six digits and a decimal exponent as '%g' writes them: trailing zeros
\* dropped, exponent notation when the exponent is below -4 or not below 6
RenderG(sign, six, e) ==
    sign \o
    (IF e < 0 - 4 \/ e >= 6
     THEN <<Head(six)>> \o Fraction(Tail(six)) \o <<101, IF e < 0 THEN 45 ELSE 43>> \o ExpDigits(e)
     ELSE IF e >= 0 THEN SubSeq(six, 1, e + 1) \o Fraction(SubSeq(six, e + 2, 6))
     ELSE <<48, 46>> \o Zeros((0 - e) - 1) \o DropZeros(six))

\* rounding may carry into a seventh digit
RenderRounded(sign, m, e) ==
    IF m = 1000000 THEN RenderG(sign, FixedDigits(100000, 6), e + 1)
    ELSE RenderG(sign, FixedDigits(m, 6), e)

RoundSix(dg) == RoundHalfEven(dg.m, dg.twice, dg.unit)
FormatG6At(sign, a, b, e) == RenderRounded(sign, RoundSix(SixDigits(a, b, e)), e)

\* f"{n / d:.6g}" for integers n and d # 0 where d does not divide n: the
\* quotient to 6 significant digits.  (The double nearest n/d rounds as n/d
\* itself except next to a tie that is not a dyadic rational; such pairs
\* are not among the inputs.)
FormatG6(n, d) ==
    FormatG6At(IF (n < 0) # (d < 0) THEN <<45>> ELSE <<>>, Abs(n), Abs(d), Exp10(Abs(n), Abs(d)))

\* result == int(result) and int(result), for the quotient of two ints
Divides(d, n) == Abs(n) % Abs(d) = 0
Quotient(n, d) == IF (n < 0) # (d < 0) THEN 0 - (Abs(n) \div Abs(d)) ELSE Abs(n) \div Abs(d)

Formatted(s) == [raised |-> FALSE, s |-> s]
FormatRaised == [raised |-> TRUE, s |-> <<>>]

\* (variant: the quotient is taken without looking at the denominator)
RationalOutcome_unguarded(n, d) ==
    IF d.t = "int" /\ d.v = 0 THEN FormatRaised
    ELSE IF n.t = "int" /\ d.t = "int"
    THEN IF Divides(d.v, n.v) THEN Formatted(StrInt(Quotient(n.v, d.v)))
         ELSE Formatted(FormatG6(n.v, d.v))
    ELSE IF n.t = "pow10" /\ d.t = "int" THEN FormatRaised
    ELSE IF n.t = "int" THEN Formatted(<<48>>)
    ELSE Formatted(<<49>>)

\* lines 288-293, a pair of ints taken as a rational.  int / int is a float
\* division: it raises OverflowError when the quotient is beyond the double
\* range, and gives 0.0 when it is below it.
RationalOutcome(n, d) ==
    IF d.t = "int" /\ d.v = 0 THEN Formatted(StrNumber(n))
    ELSE IF n.t = "int" /\ d.t = "int"
    THEN IF Divides(d.v, n.v) THEN Formatted(StrInt(Quotient(n.v, d.v)))
         ELSE Formatted(FormatG6(n.v, d.v))
    ELSE IF n.t = "pow10" /\ d.t = "int" THEN FormatRaised     \* OverflowError
    ELSE IF n.t = "int" THEN Formatted(<<48>>)                  \* 0.0 == int(0.0)
    ELSE Formatted(<<49>>)                                      \* HugeInt / HugeInt

\* ', '.join(item for item in formatted_items if item)
RECURSIVE JoinNonEmpty(_)
JoinNonEmpty(items) ==
    IF items = <<>> THEN <<>>
    ELSE LET rest == JoinNonEmpty(Tail(items)) IN
         IF Head(items) = <<>> THEN rest
         ELSE IF rest = <<>> THEN Head(items)
         ELSE Head(items) \o <<44, 32>> \o rest

\* format_metadata_value(value): the string returned, or that it raised
RECURSIVE FormatOutcome(_)
FormatOutcome(value) ==
    CASE value.t = "none" -> Formatted(<<>>)
      [] value.t = "bytes" ->
            \* utf-8 and latin-1 both map a byte below 256 to the code point of
            \* the same number here; latin-1 never fails
            Formatted(Strip(value.v, {NUL}))
      [] value.t = "tuple" /\ Len(value.v) = 2 /\ IsInt(value.v[1]) /\ IsInt(value.v[2]) ->
            RationalOutcome(value.v[1], value.v[2])
      [] value.t \in {"tuple", "list"} ->
            LET formatted_items == [i \in 1..Len(value.v) |-> FormatOutcome(value.v[i])] IN
            IF \E i \in 1..Len(value.v) : formatted_items[i].raised THEN FormatRaised
            ELSE Formatted(JoinNonEmpty([i \in 1..Len(value.v) |-> formatted_items[i].s]))
      [] value.t = "str" -> Formatted(Strip(Strip(value.v, {NUL}), Whitespace))
      [] value.t \in {"int", "pow10"} -> Formatted(Strip(StrNumber(value), Whitespace))

FormatMetadataValue(value) == FormatOutcome(value).s

(***************************************************************************)
(* The two libraries' view of a file                                       *)
(***************************************************************************)
\* piexif.TAGS[ifd]: the tags the codec has a name for
KnownTags == {"Make", "Model", "Software", "ImageWidth", "ImageLength", "Compression",
              "InterColorProfile", "ExifVersion", "UserComment", "MakerNote",
              "GPSLatitudeRef"}

\* Tags a TIFF container cannot do without; the TIFF encoder writes them for
\* every image (with BitsPerSample, StripOffsets, ... not listed here).
StructuralTags == {"ImageWidth", "ImageLength", "Compression"}
\* The tag a TIFF keeps its embedded colour profile in.
ProfileTag == "InterColorProfile"
ProfileBytes == [t |-> "bytes", v |-> <<97, 99, 115, 112>>]

Restrict(fn, S) == [k \in (DOMAIN fn) \cap S |-> fn[k]]

\* piexif.load(path): raises when the codec is missing, the path cannot be
\* opened, or the EXIF block does not parse.
PiexifLoadOK(f, e, p) ==
    /\ e.hasPiexif
    /\ p # NoneP /\ Lookup(f, p) # NoLoc
    /\ Node(f, Lookup(f, p)).kind = "file"
    /\ Node(f, Lookup(f, p)).exif.ok

PiexifLoad(f, p) == Node(f, Lookup(f, p)).exif.ifd

\* Image.open(path): raises when Pillow is missing or cannot identify the file
ImageOpenOK(f, e, p) ==
    /\ e.hasPIL
    /\ p # NoneP /\ Lookup(f, p) # NoLoc
    /\ Node(f, Lookup(f, p)).kind = "file"
    /\ Node(f, Lookup(f, p)).img.ok

\* img.getexif(): the tags of the main IFD
GetExif(f, p) == Node(f, Lookup(f, p)).exif.ifd["0th"]

(***************************************************************************)
(* MetadataHandler.extract_metadata and its helpers                        *)
(***************************************************************************)
section_names == [i \in IFDSet |->
    CASE i = "0th" -> "EXIF"
      [] i = "Exif" -> "EXIF Details"
      [] i = "GPS" -> "GPS Location"
      [] i = "1st" -> "Thumbnail"
      [] i = "Interop" -> "Interoperability"]

EmptyDoc == <<>>            \* {}

\* dict.update
Update(d, e) == [k \in (DOMAIN d) \cup (DOMAIN e) |-> IF k \in DOMAIN e THEN e[k] ELSE d[k]]

\* (variant: every named tag is kept, whatever its formatted value)
SectionData_keepsBlank(tags, named) ==
    [t \in (DOMAIN tags) \cap named |-> FormatMetadataValue(tags[t])]

\* the per-tag loop shared by both decoders: keep a tag iff its formatted
\* value is non-empty and not all whitespace
SectionData(tags, named) ==
    LET kept == {t \in DOMAIN tags :
                    /\ t \in named
                    /\ ~FormatOutcome(tags[t]).raised
                    /\ FormatMetadataValue(tags[t]) # <<>>
                    /\ Strip(FormatMetadataValue(tags[t]), Whitespace) # <<>>}
    IN [t \in kept |-> FormatMetadataValue(tags[t])]

\* MetadataHandler._process_piexif_data
ProcessPiexifData(exif_dict) ==
    LET present == {i \in IFDSet : SectionData(exif_dict[i], KnownTags) # <<>>} IN
    [name \in {section_names[i] : i \in present} |->
        SectionData(exif_dict[CHOOSE i \in present : section_names[i] = name], KnownTags)]

\* MetadataHandler._process_pillow_exif: every failure inside is swallowed
PillowSectionName == "EXIF (Pillow)"                       \* metadata.py:139
ProcessPillowExif(f, e, p) ==
    IF ~ImageOpenOK(f, e, p) THEN EmptyDoc
    ELSE LET section_data == SectionData(GetExif(f, p), DOMAIN GetExif(f, p)) IN
         IF section_data = <<>> THEN EmptyDoc
         ELSE [name \in {PillowSectionName} |-> section_data]

\* the size line of _get_file_info: <<number, unit>>, KB and MB in tenths
SizeStr(file_size) ==
    IF file_size < 1024 THEN <<file_size, "bytes">>
    ELSE IF file_size < 1024 * 1024 THEN <<(file_size * 10) \div 1024, "tenths KB">>
    ELSE <<(file_size * 10) \div (1024 * 1024), "tenths MB">>

\* MetadataHandler._get_file_info: {} on any failure
GetFileInfo(f, e, p) ==
    IF p = NoneP \/ Lookup(f, p) = NoLoc \/ Node(f, Lookup(f, p)).kind = "none" THEN <<>>
    ELSE IF ~ImageOpenOK(f, e, p) THEN <<>>
    ELSE LET file == Node(f, Lookup(f, p)) IN
         [k \in {"Filename", "File Size", "Image Size", "Format", "Mode"} |->
            CASE k = "Filename" -> <<BaseName(p)>>
              [] k = "File Size" -> SizeStr(file.size)
              [] k = "Image Size" -> <<file.img.width, "x", file.img.height, "pixels">>
              [] k = "Format" -> <<IF file.img.format = "" THEN "Unknown" ELSE file.img.format>>
              [] k = "Mode" -> <<file.img.mode>>]

ErrorDoc(msg) == [k \in {"error"} |-> msg]
InfoDoc == [k \in {"info"} |-> "No metadata found"]

(***************************************************************************)
(* The two strip methods of MetadataHandler.remove_metadata                *)
(***************************************************************************)
\* open(path, "wb") succeeds: the walk lands in a directory the caller may
\* write to, on nothing or on a regular file.
CanWrite(f, p) ==
    /\ p # NoneP /\ Lookup(f, p) \notin {NoLoc, Root}
    /\ Node(f, Lookup(f, p)).kind \in {"none", "file"}
    /\ Node(f, Parent(Lookup(f, p))).kind = "dir"
    /\ Node(f, Lookup(f, p)).kind = "none" => Node(f, Parent(Lookup(f, p))).writable

WriteFile(f, p, content) == [f EXCEPT ![Lookup(f, p)] = content]

\* piexif.remove(src, dst) can get as far as writing: the codec is there, it
\* handles JPEG only, and the source opens.
PiexifRemoveReads(f, e, src) ==
    /\ e.hasPiexif
    /\ src # NoneP /\ Lookup(f, src) # NoLoc
    /\ Node(f, Lookup(f, src)).kind = "file"
    /\ Node(f, Lookup(f, src)).header = "jpeg"

\* (variant: the source is copied as it is)
PiexifStripped_copies(file) == [file EXCEPT !.readable = TRUE]

\* what piexif.remove writes: the source bytes without the EXIF segment
PiexifStripped(file) ==
    [file EXCEPT !.readable = TRUE, !.size = file.size - file.exif.bytes, !.exif = NoExif]

\* the tags of a TIFF the encoder writes from the image alone: the container's
\* own, and the colour profile when save() is handed one (metadata.py:221-222)
TiffTags(im) ==
    [t \in StructuralTags \cup (IF im.icc THEN {ProfileTag} ELSE {}) |->
        CASE t = "ImageWidth" -> [t |-> "int", v |-> im.width]
          [] t = "ImageLength" -> [t |-> "int", v |-> im.height]
          [] t = "Compression" -> [t |-> "int", v |-> 1]
          [] t = ProfileTag -> ProfileBytes]

\* (variant: the image is saved as opened, its EXIF block with it)
PillowRebuilt_keepsExif(file) == [file EXCEPT !.readable = TRUE]

\* what Pillow's encoder writes for an image rebuilt from the pixels alone:
\* a JPEG with an empty EXIF block, or a TIFF with the tags above and nothing
\* else
PillowRebuilt(file) ==
    LET structural == TiffTags(file.img)
    IN [file EXCEPT
          !.readable = TRUE,
          !.header = IF file.img.format = "JPEG" THEN "jpeg" ELSE "tiff",
          !.size = file.size - file.exif.bytes,
          !.exif = IF file.img.format = "JPEG" THEN NoExif
                   ELSE Exif(TRUE, 0, [NoTags EXCEPT !["0th"] = structural])]

\* How a strip method can end: "ok"; "raise" before the output is opened;
\* "partial": the output was opened for writing (and so truncated) and the
\* write then failed.
Outcomes == {"ok", "raise", "partial"}

PrimaryPossible(f, e, src, dst, outcome) ==
    IF PiexifRemoveReads(f, e, src) /\ CanWrite(f, dst) THEN outcome \in Outcomes
    ELSE outcome = "raise"

FallbackPossible(f, e, src, dst, outcome) ==
    IF ImageOpenOK(f, e, src) /\ CanWrite(f, dst) THEN outcome \in Outcomes
    ELSE outcome = "raise"

\* the location a strip method opened for writing, if it got that far
Opened(f, dst, outcome) == IF outcome = "raise" THEN {} ELSE {Lookup(f, dst)}

AfterStrip(f, src, dst, outcome, content) ==
    CASE outcome = "ok" -> WriteFile(f, dst, content)
      [] outcome = "partial" -> WriteFile(f, dst, Truncated)
      [] OTHER -> f

(***************************************************************************)
(* The format sets (MetadataHandler.is_supported_format,                   *)
(* get_supported_formats)                                                  *)
(*                                                                         *)
(* Here a string is the sequence of its characters, so that splitext and   *)
(* lower are computed and not looked up.                                   *)
(***************************************************************************)
DotJpg == <<".", "j", "p", "g">>
DotJpeg == <<".", "j", "p", "e", "g">>
DotTiff == <<".", "t", "i", "f", "f">>
DotTif == <<".", "t", "i", "f">>

\* metadata.py:35 and security_validators.py:27: two set objects
HandlerFormats == 1
ValidatorFormats == 2
InitHeap == <<{DotJpg, DotJpeg, DotTiff, DotTif}, {DotJpg, DotJpeg, DotTiff, DotTif}>>

\* str.rfind, counting from 1; 0 when the character does not occur
RFind(s, c) ==
    LET I == {i \in 1..Len(s) : s[i] = c} IN
    IF I = {} THEN 0 ELSE CHOOSE i \in I : \A j \in I : j <= i

\* os.path.splitext(p)[1] (genericpath._splitext): from the last dot, if it
\* lies after the last separator and some character of the file name before
\* it is not a dot
SplitExtStr(p) ==
    LET sepIndex == RFind(p, "/")
        dotIndex == RFind(p, ".")
    IN IF dotIndex > sepIndex /\ \E k \in (sepIndex + 1)..(dotIndex - 1) : p[k] # "."
       THEN SubSeq(p, dotIndex, Len(p))
       ELSE <<>>

UpperLetters == <<"A", "B", "C", "D", "E", "F", "G", "H", "I", "J", "K", "L", "M",
                  "N", "O", "P", "Q", "R", "S", "T", "U", "V", "W", "X", "Y", "Z">>
LowerLetters == <<"a", "b", "c", "d", "e", "f", "g", "h", "i", "j", "k", "l", "m",
                  "n", "o", "p", "q", "r", "s", "t", "u", "v", "w", "x", "y", "z">>

\* str.lower
LowerChar(c) ==
    IF \E i \in 1..26 : UpperLetters[i] = c
    THEN LowerLetters[CHOOSE i \in 1..26 : UpperLetters[i] = c]
    ELSE c
StrLower(s) == [i \in 1..Len(s) |-> LowerChar(s[i])]

\* (variant: the extension is compared as it is written)
IsSupportedFormat_caseSensitive(h, file_path) ==
    IF file_path = NoneP \/ file_path = EmptyP THEN FALSE
    ELSE SplitExtStr(file_path) \in h[HandlerFormats]

\* MetadataHandler.is_supported_format, metadata.py:246-250
IsSupportedFormat(h, file_path) ==
    IF file_path = NoneP \/ file_path = EmptyP THEN FALSE
    ELSE StrLower(SplitExtStr(file_path)) \in h[HandlerFormats]

\* SecurityValidator._is_supported_format, security_validators.py:92-95
ValidatorIsSupportedFormat(h, file_path) ==
    IF file_path = NoneP \/ file_path = EmptyP THEN FALSE
    ELSE StrLower(SplitExtStr(file_path)) \in h[ValidatorFormats]

(***************************************************************************)
(* RateLimiter (security_hardening.py:17-80)                               *)
(*                                                                         *)
(* requests maps an identifier to its deque of time stamps, oldest first;  *)
(* an identifier never asked about has no entry (the defaultdict makes an  *)
(* empty one on first use).  The clock does not run backwards.             *)
(***************************************************************************)
RateLimiter(max_requests, window_seconds) ==
    [max_requests |-> max_requests, window_seconds |-> window_seconds, requests |-> <<>>]

\* d[k] = v
Put(d, k, v) == [x \in (DOMAIN d) \cup {k} |-> IF x = k THEN v ELSE d[x]]
\* del d[k]
Del(d, k) == [x \in (DOMAIN d) \ {k} |-> d[x]]

\* self.requests[identifier]
RequestQueue(l, identifier) ==
    IF identifier \in DOMAIN l.requests THEN l.requests[identifier] ELSE <<>>

\* lines 44-45 and 68-69: drop from the left while the head is older than
\* the window
RECURSIVE DropOld(_, _)
DropOld(request_queue, cutoff) ==
    IF request_queue # <<>> /\ Head(request_queue) < cutoff
    THEN DropOld(Tail(request_queue), cutoff)
    ELSE request_queue

\* (variant: a refused request is recorded like a granted one)
IsAllowed_recordsDenied(l, identifier, current_time) ==
    LET request_queue == DropOld(RequestQueue(l, identifier), current_time - l.window_seconds) IN
    [res |-> Len(request_queue) < l.max_requests,
     obj |-> [l EXCEPT !.requests = Put(@, identifier, Append(request_queue, current_time))]]

\* (variant: the limit is tested with <=)
IsAllowed_offByOne(l, identifier, current_time) ==
    LET request_queue == DropOld(RequestQueue(l, identifier), current_time - l.window_seconds) IN
    IF Len(request_queue) <= l.max_requests
    THEN [res |-> TRUE,
          obj |-> [l EXCEPT !.requests = Put(@, identifier, Append(request_queue, current_time))]]
    ELSE [res |-> FALSE, obj |-> [l EXCEPT !.requests = Put(@, identifier, request_queue)]]

\* RateLimiter.is_allowed: the result and the limiter afterwards
IsAllowed(l, identifier, current_time) ==
    LET request_queue == DropOld(RequestQueue(l, identifier), current_time - l.window_seconds) IN
    IF Len(request_queue) < l.max_requests
    THEN [res |-> TRUE,
          obj |-> [l EXCEPT !.requests = Put(@, identifier, Append(request_queue, current_time))]]
    ELSE [res |-> FALSE, obj |-> [l EXCEPT !.requests = Put(@, identifier, request_queue)]]

\* RateLimiter.get_remaining_requests
GetRemainingRequests(l, identifier, current_time) ==
    LET request_queue == DropOld(RequestQueue(l, identifier), current_time - l.window_seconds) IN
    [res |-> IF l.max_requests - Len(request_queue) > 0
             THEN l.max_requests - Len(request_queue) ELSE 0,
     obj |-> [l EXCEPT !.requests = Put(@, identifier, request_queue)]]

\* RateLimiter.reset
ResetLimiter(l, identifier) ==
    IF identifier \in DOMAIN l.requests THEN [l EXCEPT !.requests = Del(@, identifier)] ELSE l

(***************************************************************************)
(* FileHashCache (security_hardening.py:83-146)                            *)
(*                                                                         *)
(* For the cache a file is what os.stat and a read show of it:             *)
(* [size, mtime, readable, data]; files is path -> file.                   *)
(***************************************************************************)
FileHashCache(max_size) == [max_size |-> max_size, cache |-> <<>>, access_order |-> <<>>]

\* deque.remove(x): the first occurrence goes
RECURSIVE RemoveFirst(_, _)
RemoveFirst(order, x) ==
    IF order = <<>> THEN <<>>
    ELSE IF Head(order) = x THEN Tail(order)
    ELSE <<Head(order)>> \o RemoveFirst(Tail(order), x)

\* line 108: f"{file_path}:{stat.st_size}:{stat.st_mtime}"
FileKey(files, file_path) == <<file_path, files[file_path].size, files[file_path].mtime>>

\* hashlib.sha256 of the file's bytes
Sha256(data) == <<"sha256", data>>

\* FileHashCache._add_to_cache; popleft on an empty deque raises IndexError
AddToCache(c, key, value) ==
    IF Cardinality(DOMAIN c.cache) >= c.max_size
    THEN IF c.access_order = <<>> THEN [raised |-> TRUE, obj |-> c]
         ELSE [raised |-> FALSE,
               obj |-> [c EXCEPT !.cache = Put(Del(@, Head(c.access_order)), key, value),
                                 !.access_order = Append(Tail(@), key)]]
    ELSE [raised |-> FALSE,
          obj |-> [c EXCEPT !.cache = Put(@, key, value), !.access_order = Append(@, key)]]

\* (variant: a hit leaves the order of use as it was)
GetFileHash_hitKeepsOrder(c, files, file_path) ==
    IF file_path \notin DOMAIN files THEN [res |-> "", obj |-> c]
    ELSE LET file_key == FileKey(files, file_path) IN
         IF file_key \in DOMAIN c.cache THEN [res |-> c.cache[file_key], obj |-> c]
         ELSE IF ~files[file_path].readable THEN [res |-> "", obj |-> c]
         ELSE LET file_hash == Sha256(files[file_path].data)
                  added == AddToCache(c, file_key, file_hash)
              IN IF added.raised THEN [res |-> "", obj |-> added.obj]
                 ELSE [res |-> file_hash, obj |-> added.obj]

\* FileHashCache.get_file_hash: "" when stat or open raises
GetFileHash(c, files, file_path) ==
    IF file_path \notin DOMAIN files THEN [res |-> "", obj |-> c]
    ELSE LET file_key == FileKey(files, file_path) IN
         IF file_key \in DOMAIN c.cache
         THEN [res |-> c.cache[file_key],
               obj |-> [c EXCEPT !.access_order = Append(RemoveFirst(@, file_key), file_key)]]
         ELSE IF ~files[file_path].readable THEN [res |-> "", obj |-> c]
         ELSE LET file_hash == Sha256(files[file_path].data)
                  added == AddToCache(c, file_key, file_hash)
              IN IF added.raised THEN [res |-> "", obj |-> added.obj]
                 ELSE [res |-> file_hash, obj |-> added.obj]

\* FileHashCache.clear
ClearCache(c) == [c EXCEPT !.cache = <<>>, !.access_order = <<>>]

(***************************************************************************)
(* SecurityMonitor (security_hardening.py:149-216)                         *)
(***************************************************************************)
warning_threshold == 5                 \* security_hardening.py:156
EventsMaxLen == 1000                   \* deque(maxlen=1000), line 154
RecentSeconds == 300                   \* line 180

SecurityMonitor == [suspicious_events |-> <<>>, blocked_files |-> {}]

\* deque.append with maxlen: a full deque drops its oldest element
AppendBounded(events, e) ==
    IF Len(events) >= EventsMaxLen THEN Append(Tail(events), e) ELSE Append(events, e)

\* lines 178-180
RecentEvents(events, file_path, t) ==
    {i \in 1..Len(events) :
        events[i].file_path = file_path /\ t - events[i].timestamp < RecentSeconds}

\* (variant: a file is blocked by the events of any path)
LogSuspiciousEvent_anyPath(m, event_type, file_path, t) ==
    LET events == AppendBounded(m.suspicious_events,
                                [timestamp |-> t, type |-> event_type, file_path |-> file_path])
    IN [suspicious_events |-> events,
        blocked_files |-> IF Len(events) >= warning_threshold
                          THEN m.blocked_files \cup {file_path}
                          ELSE m.blocked_files]

\* SecurityMonitor.log_suspicious_event
LogSuspiciousEvent(m, event_type, file_path, t) ==
    LET events == AppendBounded(m.suspicious_events,
                                [timestamp |-> t, type |-> event_type, file_path |-> file_path])
    IN [suspicious_events |-> events,
        blocked_files |-> IF Cardinality(RecentEvents(events, file_path, t)) >= warning_threshold
                          THEN m.blocked_files \cup {file_path}
                          ELSE m.blocked_files]

\* SecurityMonitor.is_file_blocked
IsFileBlocked(m, file_path) == file_path \in m.blocked_files

\* SecurityMonitor.unblock_file
UnblockFile(m, file_path) == [m EXCEPT !.blocked_files = @ \ {file_path}]

(***************************************************************************)
(* SecurityHardening (security_hardening.py:219-277)                       *)
(***************************************************************************)
max_concurrent_operations == 3         \* security_hardening.py:229

\* SecurityHardening.__init__
HardeningInit ==
    /\ now = 0
    /\ limiter = RateLimiter(20, 60)
    /\ cache = FileHashCache(500)
    /\ monitor = SecurityMonitor
    /\ current_operations = 0
    /\ callers = <<>>

\* SecurityHardening.check_file_security: the message or PASS, and the rate
\* limiter afterwards
CheckFileSecurity(m, l, ops, file_path, t) ==
    IF IsFileBlocked(m, file_path)
    THEN [res |-> "File is blocked due to suspicious activity", obj |-> l]
    ELSE LET allowed == IsAllowed(l, "file_access", t) IN
         IF ~allowed.res
         THEN [res |-> "Rate limit exceeded - please wait before processing more files",
               obj |-> allowed.obj]
         ELSE IF ops >= max_concurrent_operations
         THEN [res |-> "Maximum concurrent operations exceeded", obj |-> allowed.obj]
         ELSE [res |-> PASS, obj |-> allowed.obj]

(***************************************************************************)
(* ScrambleWindow (window.py)                                              *)
(***************************************************************************)
\* window.py:30: no image yet, no dialog open
NewWindow == [current_image_path |-> NoneP, save_sensitive |-> FALSE, dialogs |-> <<>>]

(***************************************************************************)
(* The caller                                                              *)
(***************************************************************************)
NoCall == [op |-> "none", inp |-> NoneP, out |-> NoneP]
NoRet == [kind |-> "none", val |-> FALSE]
RetDoc(d) == [kind |-> "doc", val |-> d]
RetBool(b) == [kind |-> "bool", val |-> b]
Raised == [kind |-> "raise", val |-> FALSE]

\* one entry of the call's trace: what was invoked, on which paths, how it ended
Ev(name, src, dst, res) == [ev |-> name, src |-> src, dst |-> dst, res |-> res]
NoPrev == [call |-> NoCall, ret |-> NoRet]

\* extract_metadata's outer handler (metadata.py:90-92)
OnExtractError == RetDoc(ErrorDoc("Failed to extract metadata"))
\* remove_metadata's outer handler (metadata.py:233-235)
OnRemoveError == RetBool(FALSE)
\* (variant: the handler around the Pillow method re-raises)
OnFallbackError_reraises == Raised
\* remove_metadata's handler around the Pillow method (metadata.py:229-231)
OnFallbackError == RetBool(FALSE)

(***************************************************************************)
(* The world the calls run in                                              *)
(***************************************************************************)
MaxCalls == 3

AsciiC == [t |-> "bytes", v |-> <<67>>]
\* a camera's tags: among them an all-NUL value, a blank one, a comment with
\* a NUL inside and a maker note that is not valid UTF-8
TagsJpeg == [NoTags EXCEPT
    !["0th"] = [k \in {"Make", "Model", "Software"} |->
                  CASE k = "Make" -> AsciiC
                    [] k = "Model" -> [t |-> "bytes", v |-> <<32, NUL>>]
                    [] k = "Software" -> [t |-> "bytes", v |-> <<NUL>>]],
    !["Exif"] = [k \in {"ExifVersion", "UserComment", "MakerNote"} |->
                  CASE k = "ExifVersion" -> [t |-> "bytes", v |-> <<48>>]
                    [] k = "UserComment" -> [t |-> "bytes", v |-> <<97, NUL, 98>>]
                    [] k = "MakerNote" -> [t |-> "bytes", v |-> <<200, 1>>]],
    !["GPS"] = [k \in {"GPSLatitudeRef"} |-> [t |-> "str", v |-> <<78>>]]]
TagsTiff == [NoTags EXCEPT
    !["0th"] = [k \in StructuralTags \cup {"Make", ProfileTag} |->
                  CASE k = "Make" -> AsciiC
                    [] k = ProfileTag -> ProfileBytes
                    [] k = "Compression" -> [t |-> "int", v |-> 1]
                    [] OTHER -> [t |-> "int", v |-> 200]],
    !["GPS"] = [k \in {"GPSLatitudeRef"} |-> [t |-> "str", v |-> <<83>>]]]

GoodJpeg == File(TRUE, 2048, "jpeg", Img(200, 200, "RGB", "JPEG"), Exif(TRUE, 100, TagsJpeg))
\* a JPEG whose EXIF block the codec cannot parse
BadExifJpeg == File(TRUE, 2048, "jpeg", Img(200, 200, "RGB", "JPEG"), Exif(FALSE, 100, TagsJpeg))
\* JPEG magic bytes, but no decoder can open it
BrokenJpeg == File(TRUE, 2048, "jpeg", NoImg, Exif(FALSE, 0, NoTags))
EmptyFile == File(TRUE, 0, "short", NoImg, Exif(FALSE, 0, NoTags))
GoodTiff == File(TRUE, 4096, "tiff", WithICC(Img(200, 200, "RGB", "TIFF")), Exif(TRUE, 100, TagsTiff))
OldOutput == File(TRUE, 1500, "jpeg", Img(10, 10, "L", "JPEG"), NoExif)

Locs == {Root, <<"w">>, <<"o">>, <<"o", "s">>,
         <<"w", "a.jpg">>, <<"w", "c.jpg">>, <<"w", "t.tif">>, <<"w", "c.tif">>,
         <<"w", "l.jpg">>, <<"w", "lnk">>, <<"o", "a.jpg">>}

\* the path strings callers pass
InPaths == {<<"a.jpg">>, <<"t.tif">>, <<"c.jpg">>, <<"c.tif">>, <<"lnk", "..", "a.jpg">>,
            <<"x.png">>, NoneP}
OutPaths == {<<"c.jpg">>, <<"c.tif">>, <<"a.jpg">>, <<"l.jpg">>, <<"lnk", "..", "a.jpg">>,
             <<"nodir", "c.jpg">>, EmptyP}

InitFs(a) ==
    [loc \in Locs |->
        CASE loc \in {Root, <<"w">>, <<"o">>, <<"o", "s">>} -> Dir(TRUE)
          [] loc = <<"w", "a.jpg">> -> a
          [] loc = <<"w", "c.jpg">> -> OldOutput
          [] loc = <<"w", "t.tif">> -> GoodTiff
          [] loc = <<"w", "l.jpg">> -> Link(<<"w", "a.jpg">>)
          [] loc = <<"w", "lnk">> -> Link(<<"o", "s">>)
          [] loc = <<"o", "a.jpg">> -> GoodJpeg
          [] OTHER -> Absent]

Init ==
    /\ \E a \in {Absent, GoodJpeg, BadExifJpeg, BrokenJpeg, EmptyFile} : fs = InitFs(a)
    /\ env \in [hasPIL : BOOLEAN, hasPiexif : BOOLEAN]
    /\ pc = "idle"
    /\ call = NoCall
    /\ doc = EmptyDoc
    /\ log = <<>>
    /\ ret = NoRet
    /\ pre = fs
    /\ written = {}
    /\ prev = NoPrev
    /\ budget = MaxCalls
    /\ heap = InitHeap
    /\ held = {}
    /\ handles = <<>>
    /\ HardeningInit
    /\ win = NewWindow

Finish(r) ==
    /\ ret' = r
    /\ pc' = "done"

(***************************************************************************)
(* extract_metadata(file_path), one action per step of metadata.py:60-92   *)
(***************************************************************************)
\* (variant: the verdict is computed but never looked at)
ExtractValidate_unchecked(p, fault) ==
    /\ pc = "idle" /\ budget > 0
    /\ budget' = budget - 1
    /\ call' = [op |-> "extract", inp |-> p, out |-> NoneP]
    /\ pre' = fs
    /\ doc' = EmptyDoc
    /\ log' = <<Ev("validate_file_security", p, NoneP,
                   IF fault THEN "raise" ELSE ValidateFileSecurity(fs, env, p))>>
    /\ IF fault THEN Finish(OnExtractError) ELSE pc' = "x_primary" /\ ret' = ret
    /\ UNCHANGED <<hardeningVars, handles, win, heap, held, fs, env, written, prev>>

\* (variant: the dict being built is kept by the handler, so a call starts
\* from the document of the call before it)
ExtractValidate_carriesOver(p, fault) ==
    /\ pc = "idle" /\ budget > 0
    /\ budget' = budget - 1
    /\ call' = [op |-> "extract", inp |-> p, out |-> NoneP]
    /\ pre' = fs
    /\ doc' = IF prev.ret.kind = "doc" THEN prev.ret.val ELSE EmptyDoc
    /\ LET validation_result == ValidateFileSecurity(fs, env, p) IN
       /\ log' = <<Ev("validate_file_security", p, NoneP,
                      IF fault THEN "raise" ELSE validation_result)>>
       /\ IF fault THEN Finish(OnExtractError)
          ELSE IF validation_result # PASS THEN Finish(RetDoc(ErrorDoc(validation_result)))
          ELSE pc' = "x_primary" /\ ret' = ret
    /\ UNCHANGED <<hardeningVars, handles, win, heap, held, fs, env, written, prev>>

\* lines 60-64: the security gate.  `fault` is the validator call itself
\* raising, which only the outer handler (lines 90-92) catches.
ExtractValidate(p, fault) ==
    /\ pc = "idle" /\ budget > 0
    /\ budget' = budget - 1
    /\ call' = [op |-> "extract", inp |-> p, out |-> NoneP]
    /\ pre' = fs
    /\ doc' = EmptyDoc
    /\ LET validation_result == ValidateFileSecurity(fs, env, p) IN
       /\ log' = <<Ev("validate_file_security", p, NoneP,
                      IF fault THEN "raise" ELSE validation_result)>>
       /\ IF fault THEN Finish(OnExtractError)
          ELSE IF validation_result # PASS THEN Finish(RetDoc(ErrorDoc(validation_result)))
          ELSE pc' = "x_primary" /\ ret' = ret
    /\ UNCHANGED <<hardeningVars, handles, win, heap, held, fs, env, written, prev>>

\* (variant: the fallback decoder runs whether or not the primary one failed)
ExtractPrimary_alwaysFallback ==
    /\ pc = "x_primary"
    /\ log' = Append(log, Ev("piexif.load", call.inp, NoneP,
                             IF PiexifLoadOK(fs, env, call.inp) THEN "ok" ELSE "raise"))
    /\ doc' = IF PiexifLoadOK(fs, env, call.inp)
              THEN Update(doc, ProcessPiexifData(PiexifLoad(fs, call.inp)))
              ELSE doc
    /\ pc' = "x_fallback"
    /\ UNCHANGED <<hardeningVars, handles, win, heap, held, fs, env, call, ret, pre, written, prev, budget>>

\* lines 69-73: the primary decoder
ExtractPrimary ==
    /\ pc = "x_primary"
    /\ log' = Append(log, Ev("piexif.load", call.inp, NoneP,
                             IF PiexifLoadOK(fs, env, call.inp) THEN "ok" ELSE "raise"))
    /\ IF PiexifLoadOK(fs, env, call.inp)
       THEN /\ doc' = Update(doc, ProcessPiexifData(PiexifLoad(fs, call.inp)))
            /\ pc' = "x_fileinfo"
       ELSE /\ doc' = doc
            /\ pc' = "x_fallback"
    /\ UNCHANGED <<hardeningVars, handles, win, heap, held, fs, env, call, ret, pre, written, prev, budget>>

\* lines 74-78: the fallback decoder
ExtractFallback ==
    /\ pc = "x_fallback"
    /\ log' = Append(log, Ev("Image.getexif", call.inp, NoneP,
                             IF ImageOpenOK(fs, env, call.inp) THEN "ok" ELSE "raise"))
    /\ doc' = Update(doc, ProcessPillowExif(fs, env, call.inp))
    /\ pc' = "x_fileinfo"
    /\ UNCHANGED <<hardeningVars, handles, win, heap, held, fs, env, call, ret, pre, written, prev, budget>>

\* (variant: a failure to gather file information is reported under 'error')
ExtractFileInfo_reportsError ==
    /\ pc = "x_fileinfo"
    /\ log' = Append(log, Ev("Image.open", call.inp, NoneP,
                             IF GetFileInfo(fs, env, call.inp) # <<>> THEN "ok" ELSE "raise"))
    /\ LET file_info == GetFileInfo(fs, env, call.inp)
           metadata == IF file_info # <<>>
                       THEN Update(doc, [k \in {"File Info"} |-> file_info])
                       ELSE Update(doc, ErrorDoc("File info extraction failed"))
       IN /\ doc' = metadata
          /\ Finish(RetDoc(metadata))
    /\ UNCHANGED <<hardeningVars, handles, win, heap, held, fs, env, call, pre, written, prev, budget>>

\* (variant: the dict is returned as it is, empty or not)
ExtractFileInfo_returnsEmpty ==
    /\ pc = "x_fileinfo"
    /\ log' = Append(log, Ev("Image.open", call.inp, NoneP,
                             IF GetFileInfo(fs, env, call.inp) # <<>> THEN "ok" ELSE "raise"))
    /\ LET file_info == GetFileInfo(fs, env, call.inp)
           metadata == IF file_info # <<>>
                       THEN Update(doc, [k \in {"File Info"} |-> file_info])
                       ELSE doc
       IN /\ doc' = metadata
          /\ Finish(RetDoc(metadata))
    /\ UNCHANGED <<hardeningVars, handles, win, heap, held, fs, env, call, pre, written, prev, budget>>

\* (variant: a failure to gather file information discards what was decoded)
ExtractFileInfo_dropsSections ==
    /\ pc = "x_fileinfo"
    /\ log' = Append(log, Ev("Image.open", call.inp, NoneP,
                             IF GetFileInfo(fs, env, call.inp) # <<>> THEN "ok" ELSE "raise"))
    /\ LET file_info == GetFileInfo(fs, env, call.inp)
           metadata == IF file_info # <<>>
                       THEN Update(doc, [k \in {"File Info"} |-> file_info])
                       ELSE EmptyDoc
       IN /\ doc' = metadata
          /\ Finish(RetDoc(IF metadata # EmptyDoc THEN metadata ELSE InfoDoc))
    /\ UNCHANGED <<hardeningVars, handles, win, heap, held, fs, env, call, pre, written, prev, budget>>

\* lines 80-88: file information, then the result
ExtractFileInfo ==
    /\ pc = "x_fileinfo"
    /\ log' = Append(log, Ev("Image.open", call.inp, NoneP,
                             IF GetFileInfo(fs, env, call.inp) # <<>> THEN "ok" ELSE "raise"))
    /\ LET file_info == GetFileInfo(fs, env, call.inp)
           metadata == IF file_info # <<>>
                       THEN Update(doc, [k \in {"File Info"} |-> file_info])
                       ELSE doc
       IN /\ doc' = metadata
          /\ Finish(RetDoc(IF metadata # EmptyDoc THEN metadata ELSE InfoDoc))
    /\ UNCHANGED <<hardeningVars, handles, win, heap, held, fs, env, call, pre, written, prev, budget>>

(***************************************************************************)
(* remove_metadata(input_path, output_path), metadata.py:183-235           *)
(***************************************************************************)
\* lines 183-188
RemoveValidateInput(p, q, fault) ==
    /\ pc = "idle" /\ budget > 0
    /\ budget' = budget - 1
    /\ call' = [op |-> "remove", inp |-> p, out |-> q]
    /\ pre' = fs
    /\ LET validation_result == ValidateFileSecurity(fs, env, p) IN
       /\ log' = <<Ev("validate_file_security", p, NoneP,
                      IF fault THEN "raise" ELSE validation_result)>>
       /\ IF fault THEN Finish(OnRemoveError)
          ELSE IF validation_result # PASS THEN Finish(RetBool(FALSE))
          ELSE pc' = "r_output" /\ ret' = ret
    /\ UNCHANGED <<hardeningVars, handles, win, heap, held, fs, env, doc, written, prev>>

\* lines 190-194
RemoveValidateOutput(fault) ==
    /\ pc = "r_output"
    /\ LET output_validation == ValidateOutputPath(fs, call.out, call.inp) IN
       /\ log' = Append(log, Ev("validate_output_path", call.inp, call.out,
                                IF fault THEN "raise" ELSE output_validation))
       /\ IF fault THEN Finish(OnRemoveError)
          ELSE IF output_validation # PASS THEN Finish(RetBool(FALSE))
          ELSE pc' = "r_primary" /\ ret' = ret
    /\ UNCHANGED <<hardeningVars, handles, win, heap, held, fs, env, call, doc, pre, written, prev, budget>>

\* (variant: a failure of method 1 ends the call, method 2 is never tried)
RemovePrimary_noFallback(outcome) ==
    /\ pc = "r_primary"
    /\ PrimaryPossible(fs, env, call.inp, call.out, outcome)
    /\ log' = Append(log, Ev("piexif.remove", call.inp, call.out, outcome))
    /\ fs' = AfterStrip(fs, call.inp, call.out, outcome,
                        PiexifStripped(Node(fs, Lookup(fs, call.inp))))
    /\ written' = written \cup Opened(fs, call.out, outcome)
    /\ Finish(RetBool(outcome = "ok"))
    /\ UNCHANGED <<hardeningVars, handles, win, heap, held, env, call, doc, pre, prev, budget>>

\* lines 196-202: method 1, piexif.remove
RemovePrimary(outcome) ==
    /\ pc = "r_primary"
    /\ PrimaryPossible(fs, env, call.inp, call.out, outcome)
    /\ log' = Append(log, Ev("piexif.remove", call.inp, call.out, outcome))
    /\ fs' = AfterStrip(fs, call.inp, call.out, outcome,
                        PiexifStripped(Node(fs, Lookup(fs, call.inp))))
    /\ written' = written \cup Opened(fs, call.out, outcome)
    /\ IF outcome = "ok" THEN Finish(RetBool(TRUE))
       ELSE pc' = "r_fallback" /\ ret' = ret
    /\ UNCHANGED <<hardeningVars, handles, win, heap, held, env, call, doc, pre, prev, budget>>

\* lines 204-231: method 2, rebuild from the pixels with Pillow
RemoveFallback(outcome) ==
    /\ pc = "r_fallback"
    /\ FallbackPossible(fs, env, call.inp, call.out, outcome)
    /\ log' = Append(log, Ev("Image.save", call.inp, call.out, outcome))
    /\ fs' = AfterStrip(fs, call.inp, call.out, outcome,
                        PillowRebuilt(Node(fs, Lookup(fs, call.inp))))
    /\ written' = written \cup Opened(fs, call.out, outcome)
    /\ Finish(IF outcome = "ok" THEN RetBool(TRUE) ELSE OnFallbackError)
    /\ UNCHANGED <<hardeningVars, handles, win, heap, held, env, call, doc, pre, prev, budget>>

\* the caller takes the result; the call's locals are gone
Forget ==
    /\ pc = "done"
    /\ pc' = "idle"
    /\ call' = NoCall
    /\ doc' = EmptyDoc
    /\ log' = <<>>
    /\ ret' = NoRet
    /\ pre' = fs
    /\ written' = {}
    /\ UNCHANGED <<hardeningVars, handles, win, heap, held, fs, env, budget>>

Return == Forget /\ prev' = NoPrev

\* the same, for a caller that keeps the result to compare with the next one
ReturnKeep == Forget /\ prev' = [call |-> call, ret |-> ret]

(***************************************************************************)
(* The validator called on its own, over files of every shape              *)
(***************************************************************************)
RetVerdict(v) == [kind |-> "verdict", val |-> v]

\* the files validation is tried on: every combination the bytes allow (an
\* image decodes only behind its own magic number; under four bytes there is
\* no magic number)
SizesV == {0, 1, 2048, max_file_size, max_file_size + 1}
ImagesV == {NoImg,
            Img(200, 200, "RGB", "JPEG"), Img(200, 200, "RGB", "TIFF"),
            Img(max_dimension, 1, "L", "JPEG"), Img(max_dimension + 1, 1, "L", "JPEG"),
            Img(10001, 10001, "RGB", "TIFF"), Img(200, 200, "I;16", "TIFF"),
            Img(0, 200, "RGB", "JPEG"), Img(1, max_dimension, "CMYK", "TIFF"),
            Img(200, 200, "RGB", "MPO"), Img(200, 200, "RGB", "PNG")}
HeaderOf(im) ==
    CASE im.format \in {"JPEG", "MPO"} -> "jpeg"
      [] im.format = "TIFF" -> "tiff"
      [] OTHER -> "junk"
FilesV ==
    {File(r, sz, hd, im, NoExif) :
        r \in BOOLEAN, sz \in SizesV, hd \in {"jpeg", "tiff", "junk", "short"}, im \in ImagesV}
WellFormed(file) ==
    /\ file.size < 4 <=> file.header = "short"
    /\ file.img.ok => file.header = HeaderOf(file.img)

LocsV == {Root, <<"w">>, <<"o">>, <<"o", "s">>, <<"w", "lnk">>, <<"w", "l.jpg">>,
          <<"w", "a.jpg">>, <<"w", "t.tif">>, <<"w", "x.png">>, <<"w", "P.JPG">>,
          <<"o", "a.jpg">>}
PathsV == {<<"a.jpg">>, <<"t.tif">>, <<"x.png">>, <<"P.JPG">>, <<"l.jpg">>,
           <<"lnk", "..", "a.jpg">>, <<"..", "o">>, <<"c.jpg">>, EmptyP, NoneP}

\* the same bytes under four names, behind a link, and in another directory
InitFsV(file) ==
    [loc \in LocsV |->
        CASE loc \in {Root, <<"w">>, <<"o">>, <<"o", "s">>} -> Dir(TRUE)
          [] loc = <<"w", "lnk">> -> Link(<<"o", "s">>)
          [] loc = <<"w", "l.jpg">> -> Link(<<"w", "x.png">>)
          [] OTHER -> file]

InitV ==
    /\ \E file \in FilesV : WellFormed(file) /\ fs = InitFsV(file)
    /\ env \in [hasPIL : BOOLEAN, hasPiexif : {TRUE}]
    /\ pc = "idle"
    /\ call = NoCall
    /\ doc = EmptyDoc
    /\ log = <<>>
    /\ ret = NoRet
    /\ pre = fs
    /\ written = {}
    /\ prev = NoPrev
    /\ budget = MaxCalls
    /\ heap = InitHeap
    /\ held = {}
    /\ handles = <<>>
    /\ HardeningInit
    /\ win = NewWindow

\* SecurityValidator.validate_file_security(file_path), called directly
ValidateOnly(p) ==
    /\ pc = "idle" /\ budget > 0
    /\ budget' = budget - 1
    /\ call' = [op |-> "validate", inp |-> p, out |-> NoneP]
    /\ pre' = fs
    /\ log' = <<Ev("validate_file_security", p, NoneP, ValidateFileSecurity(fs, env, p))>>
    /\ Finish(RetVerdict(ValidateFileSecurity(fs, env, p)))
    /\ UNCHANGED <<hardeningVars, handles, win, heap, held, fs, env, doc, written, prev>>

NextV ==
    \/ \E p \in PathsV : ValidateOnly(p)
    \/ Return

SpecV == InitV /\ [][NextV]_vars

Next ==
    \/ \E p \in InPaths, fault \in BOOLEAN : ExtractValidate(p, fault)
    \/ ExtractPrimary
    \/ ExtractFallback
    \/ ExtractFileInfo
    \/ \E p \in InPaths, q \in OutPaths, fault \in BOOLEAN : RemoveValidateInput(p, q, fault)
    \/ \E fault \in BOOLEAN : RemoveValidateOutput(fault)
    \/ \E outcome \in Outcomes : RemovePrimary(outcome)
    \/ \E outcome \in Outcomes : RemoveFallback(outcome)
    \/ Return

Spec == Init /\ [][Next]_vars

(***************************************************************************)
(* A caller that keeps each result to compare it with the next call's      *)
(***************************************************************************)
SeqInPaths == {<<"a.jpg">>, <<"t.tif">>, <<"c.jpg">>, <<"c.tif">>}
SeqOutPaths == {<<"c.jpg">>, <<"c.tif">>}

NextSeq ==
    \/ \E p \in SeqInPaths : ExtractValidate(p, FALSE)
    \/ ExtractPrimary
    \/ ExtractFallback
    \/ ExtractFileInfo
    \/ \E p \in SeqInPaths, q \in SeqOutPaths : RemoveValidateInput(p, q, FALSE)
    \/ RemoveValidateOutput(FALSE)
    \/ \E outcome \in Outcomes : RemovePrimary(outcome)
    \/ \E outcome \in Outcomes : RemoveFallback(outcome)
    \/ ReturnKeep

SpecSeq == Init /\ [][NextSeq]_vars

(***************************************************************************)
(* A caller that asks for the format set, changes the sets it was given    *)
(* and asks which paths are supported                                      *)
(***************************************************************************)
RetRef(i) == [kind |-> "ref", val |-> i]

\* the path strings asked about: a stem followed by an ending
Stems == {<<>>, <<"t">>, <<".">>, <<"d", "/">>, <<"d", ".", "e", "/", "t">>,
          <<"t", ".", "j", "p", "g">>}
Endings == {<<>>, DotJpg, DotJpeg, DotTiff, DotTif,
            <<".", "J", "P", "G">>, <<".", "T", "I", "F", "F">>, <<".", "J", "p", "e", "g">>,
            <<".", "t", "I", "f">>, <<".", "p", "n", "g">>, <<".", "g", "i", "f">>,
            <<".", "j", "p", "g", ".">>, <<".", "j", "p", "g", "x">>, <<"j", "p", "g">>,
            <<".", "t", "i", "f", "/", "t">>}
PathStrings == {s \o e : s \in Stems, e \in Endings} \cup {NoneP}

\* what a caller adds to, or discards from, a set it was given
MutationItems == {<<".", "p", "n", "g">>, DotJpg}

InitFormats ==
    /\ fs = InitFs(GoodJpeg)
    /\ env = [hasPIL |-> TRUE, hasPiexif |-> TRUE]
    /\ pc = "idle"
    /\ call = NoCall
    /\ doc = EmptyDoc
    /\ log = <<>>
    /\ ret = NoRet
    /\ pre = fs
    /\ written = {}
    /\ prev = NoPrev
    /\ budget = MaxCalls
    /\ heap = InitHeap
    /\ held = {}
    /\ handles = <<>>
    /\ HardeningInit
    /\ win = NewWindow

\* handler.is_supported_format(file_path)
HandlerIsSupportedFormat(p) ==
    /\ pc = "idle" /\ budget > 0
    /\ budget' = budget - 1
    /\ call' = [op |-> "is_supported_format", inp |-> p, out |-> NoneP]
    /\ Finish(RetBool(IsSupportedFormat(heap, p)))
    /\ UNCHANGED <<hardeningVars, handles, win, heap, held, fs, env, doc, log, pre, written, prev>>

\* validator._is_supported_format(file_path), the extension stage of
\* validate_file_security
ValidatorChecksFormat(p) ==
    /\ pc = "idle" /\ budget > 0
    /\ budget' = budget - 1
    /\ call' = [op |-> "_is_supported_format", inp |-> p, out |-> NoneP]
    /\ Finish(RetBool(ValidatorIsSupportedFormat(heap, p)))
    /\ UNCHANGED <<hardeningVars, handles, win, heap, held, fs, env, doc, log, pre, written, prev>>

\* (variant: the handler's own set is handed out)
GetSupportedFormats_alias ==
    /\ pc = "idle" /\ budget > 0
    /\ budget' = budget - 1
    /\ call' = [op |-> "get_supported_formats", inp |-> NoneP, out |-> NoneP]
    /\ heap' = heap
    /\ held' = held \cup {HandlerFormats}
    /\ Finish(RetRef(HandlerFormats))
    /\ UNCHANGED <<hardeningVars, handles, win, fs, env, doc, log, pre, written, prev>>

\* handler.get_supported_formats(), metadata.py:258: a new set object with
\* the elements of self.supported_formats
GetSupportedFormats ==
    /\ pc = "idle" /\ budget > 0
    /\ budget' = budget - 1
    /\ call' = [op |-> "get_supported_formats", inp |-> NoneP, out |-> NoneP]
    /\ heap' = Append(heap, heap[HandlerFormats])
    /\ held' = held \cup {Len(heap) + 1}
    /\ Finish(RetRef(Len(heap) + 1))
    /\ UNCHANGED <<hardeningVars, handles, win, fs, env, doc, log, pre, written, prev>>

\* the caller's set.add(x) / set.discard(x) on a set it holds
MutateReturned(i, x, add) ==
    /\ pc = "idle"
    /\ i \in held
    /\ heap' = [heap EXCEPT ![i] = IF add THEN @ \cup {x} ELSE @ \ {x}]
    /\ heap' # heap
    /\ UNCHANGED <<hardeningVars, handles, win, held, fs, env, pc, call, doc, log, ret, pre, written, prev, budget>>

NextFormats ==
    \/ \E p \in PathStrings : HandlerIsSupportedFormat(p)
    \/ \E p \in PathStrings : ValidatorChecksFormat(p)
    \/ GetSupportedFormats
    \/ \E i \in held, x \in MutationItems, add \in BOOLEAN : MutateReturned(i, x, add)
    \/ Return

SpecFormats == InitFormats /\ [][NextFormats]_vars

(***************************************************************************)
(* The handles the core opens (SpecHandles)                                *)
(*                                                                         *)
(* Every open of the core and of the two libraries, in the order the code  *)
(* reaches them.  A step either opens a handle or runs the body of the     *)
(* `with` block that holds the innermost one; each way a step can end      *)
(* names the step that follows, how many `with` blocks are left on the way *)
(* (their exits close the handles), and whether a handle was opened.       *)
(***************************************************************************)
To(next, pops, push) == [to |-> next, pops |-> pops, push |-> push]

\* after validate_file_security passed: what the call does next
AfterValidation(op) ==
    CASE op = "extract" -> "x_load"
      [] op = "remove" -> "r_src"
      [] OTHER -> "done"

\* the steps of security_validators.py and metadata.py that hold a handle
CoreSteps(op) ==
    [s \in {"v_header", "v_header_body", "v_image", "v_image_body",
            "x_load", "x_load_body", "x_pillow", "x_pillow_body", "x_info", "x_info_body",
            "r_src", "r_src_body", "r_dst", "r_dst_body",
            "r_image", "r_image_body", "r_save", "r_save_body"} |->
        CASE s = "v_header" ->           \* security_validators.py:107, open(file_path, 'rb')
                 [resource |-> "input", ends |-> {To("v_header_body", 0, TRUE), To("done", 0, FALSE)}]
          [] s = "v_header_body" ->      \* line 108, then 110-121 outside the block
                 [resource |-> "input", ends |-> {To("v_image", 1, FALSE), To("done", 1, FALSE)}]
          [] s = "v_image" ->            \* line 141, Image.open
                 [resource |-> "input", ends |-> {To("v_image_body", 0, TRUE), To("done", 0, FALSE)}]
          [] s = "v_image_body" ->       \* lines 142-167: falls out, returns False, or raises
                 [resource |-> "input", ends |-> {To(AfterValidation(op), 1, FALSE), To("done", 1, FALSE)}]
          [] s = "x_load" ->             \* metadata.py:71, piexif.load opens the file
                 [resource |-> "input", ends |-> {To("x_load_body", 0, TRUE), To("x_pillow", 0, FALSE)}]
          [] s = "x_load_body" ->
                 [resource |-> "input", ends |-> {To("x_info", 1, FALSE), To("x_pillow", 1, FALSE)}]
          [] s = "x_pillow" ->           \* metadata.py:124
                 [resource |-> "input", ends |-> {To("x_pillow_body", 0, TRUE), To("x_info", 0, FALSE)}]
          [] s = "x_pillow_body" ->      \* lines 125-139
                 [resource |-> "input", ends |-> {To("x_info", 1, FALSE)}]
          [] s = "x_info" ->             \* metadata.py:148 and 159
                 [resource |-> "input", ends |-> {To("x_info_body", 0, TRUE), To("done", 0, FALSE)}]
          [] s = "x_info_body" ->        \* lines 160-166: returns inside the block, or raises
                 [resource |-> "input", ends |-> {To("done", 1, FALSE)}]
          [] s = "r_src" ->              \* metadata.py:198, piexif.remove reads the input
                 [resource |-> "input", ends |-> {To("r_src_body", 0, TRUE), To("r_image", 0, FALSE)}]
          [] s = "r_src_body" ->
                 [resource |-> "input", ends |-> {To("r_dst", 1, FALSE), To("r_image", 1, FALSE)}]
          [] s = "r_dst" ->              \* piexif.remove writes the output
                 [resource |-> "output", ends |-> {To("r_dst_body", 0, TRUE), To("r_image", 0, FALSE)}]
          [] s = "r_dst_body" ->
                 [resource |-> "output", ends |-> {To("done", 1, FALSE), To("r_image", 1, FALSE)}]
          [] s = "r_image" ->            \* metadata.py:206
                 [resource |-> "input", ends |-> {To("r_image_body", 0, TRUE), To("done", 0, FALSE)}]
          [] s = "r_image_body" ->       \* lines 208-222: goes on to save, or raises
                 [resource |-> "input", ends |-> {To("r_save", 0, FALSE), To("done", 1, FALSE)}]
          [] s = "r_save" ->             \* line 225, Image.save opens the output
                 [resource |-> "output", ends |-> {To("r_save_body", 0, TRUE), To("done", 1, FALSE)}]
          [] s = "r_save_body" ->        \* save closes its file, then line 227 leaves the block
                 [resource |-> "output", ends |-> {To("done", 2, FALSE)}]]

\* (variant: remove_metadata opens the input image without a `with`, so
\* nothing closes it when the block is left)
StepsOf_bareOpen(op) ==
    [CoreSteps(op) EXCEPT
        !["r_image_body"].ends = {To("r_save", 0, FALSE), To("done", 0, FALSE)},
        !["r_save"].ends = {To("r_save_body", 0, TRUE), To("done", 0, FALSE)},
        !["r_save_body"].ends = {To("done", 1, FALSE)}]

\* the steps of the call `op`
StepsOf(op) == CoreSteps(op)

HandleOps == {"validate", "extract", "remove"}

InitHandles ==
    /\ fs = InitFs(GoodJpeg)
    /\ env = [hasPIL |-> TRUE, hasPiexif |-> TRUE]
    /\ pc = "idle"
    /\ call = NoCall
    /\ doc = EmptyDoc
    /\ log = <<>>
    /\ ret = NoRet
    /\ pre = fs
    /\ written = {}
    /\ prev = NoPrev
    /\ budget = MaxCalls
    /\ heap = InitHeap
    /\ held = {}
    /\ handles = <<>>
    /\ HardeningInit
    /\ win = NewWindow

\* a call begins; validation may fail before any file is opened (lines 44-74)
BeginCall(op, p, q, early) ==
    /\ pc = "idle" /\ budget > 0
    /\ budget' = budget - 1
    /\ call' = [op |-> op, inp |-> p, out |-> IF op = "remove" THEN q ELSE NoneP]
    /\ pc' = IF early THEN "done" ELSE "v_header"
    /\ log' = <<pc'>>
    /\ UNCHANGED <<hardeningVars, handles, win, heap, held, fs, env, doc, ret, pre, written, prev>>

\* one step of the call, ending one of the ways the code allows
CoreStep ==
    /\ pc \in DOMAIN StepsOf(call.op)
    /\ \E end \in StepsOf(call.op)[pc].ends :
          /\ handles' =
                LET kept == SubSeq(handles, 1, Len(handles) - end.pops) IN
                IF end.push
                THEN Append(kept, [resource |-> StepsOf(call.op)[pc].resource,
                                   path |-> IF StepsOf(call.op)[pc].resource = "input"
                                            THEN call.inp ELSE call.out])
                ELSE kept
          /\ pc' = end.to
          /\ log' = Append(log, end.to)
    /\ UNCHANGED <<hardeningVars, win, heap, held, fs, env, call, doc, ret, pre, written, prev, budget>>

NextHandles ==
    \/ \E op \in HandleOps, p \in SeqInPaths, q \in SeqOutPaths, early \in BOOLEAN :
          BeginCall(op, p, q, early)
    \/ CoreStep
    \/ Return

SpecHandles == InitHandles /\ [][NextHandles]_vars

(***************************************************************************)
(* Another actor on the same filesystem (SpecRace)                         *)
(***************************************************************************)
\* a JPEG the bounds check turns away
HugeJpeg == File(TRUE, 2048, "jpeg", Img(10001, 10001, "RGB", "JPEG"), Exif(TRUE, 100, TagsJpeg))

\* what the other actor may put where: another file under the input's name,
\* or a symbolic link to the input under the output's name
Replacements ==
    {<<<<"w", "a.jpg">>, HugeJpeg>>, <<<<"w", "a.jpg">>, GoodTiff>>,
     <<<<"w", "c.jpg">>, Link(<<"w", "a.jpg">>)>>}

\* the call has validated its input and has not returned
InFlight == pc \in {"x_primary", "x_fallback", "x_fileinfo", "r_output", "r_primary", "r_fallback"}

\* the other actor renames a file or a link into place, once, while a call
\* is between two of its steps
OtherActor(loc, node) ==
    /\ InFlight
    /\ fs = pre
    /\ fs' = [fs EXCEPT ![loc] = node]
    /\ fs' # fs
    /\ UNCHANGED <<hardeningVars, handles, win, heap, held, env, pc, call, doc, log, ret, pre,
                   written, prev, budget>>

NextRace ==
    \/ \E p \in SeqInPaths : ExtractValidate(p, FALSE)
    \/ ExtractPrimary
    \/ ExtractFallback
    \/ ExtractFileInfo
    \/ \E p \in SeqInPaths, q \in SeqOutPaths : RemoveValidateInput(p, q, FALSE)
    \/ RemoveValidateOutput(FALSE)
    \/ \E outcome \in Outcomes : RemovePrimary(outcome)
    \/ \E outcome \in Outcomes : RemoveFallback(outcome)
    \/ \E r \in Replacements : OtherActor(r[1], r[2])
    \/ Return

SpecRace == Init /\ [][NextRace]_vars

(***************************************************************************)
(* The objects of security_hardening.py on their own                       *)
(***************************************************************************)
\* the variables of the metadata core, at rest in these specifications
coreVars == <<fs, env, pc, call, doc, ret, pre, written, prev, heap, held, handles, win>>

CoreAtRest ==
    /\ fs = InitFs(GoodJpeg)
    /\ env = [hasPIL |-> TRUE, hasPiexif |-> TRUE]
    /\ pc = "idle"
    /\ call = NoCall
    /\ doc = EmptyDoc
    /\ ret = NoRet
    /\ pre = fs
    /\ written = {}
    /\ prev = NoPrev
    /\ heap = InitHeap
    /\ held = {}
    /\ handles = <<>>
    /\ win = NewWindow

\* time.time() moves on
Elapse(seconds, MaxNow) ==
    /\ now + seconds <= MaxNow
    /\ now' = now + seconds
    /\ UNCHANGED <<coreVars, log, budget, limiter, cache, monitor, current_operations, callers>>

Tick(MaxNow) == Elapse(1, MaxNow)

\* the last n elements of s
LastN(s, n) == IF Len(s) <= n THEN s ELSE SubSeq(s, Len(s) - n + 1, Len(s))

(***************************************************************************)
(* A RateLimiter and its callers (SpecLimiter)                             *)
(*                                                                         *)
(* log is the history of the calls: [op, id, t, res].                      *)
(***************************************************************************)
LimiterMaxRequests == 2
LimiterWindow == 1
LimiterCalls == 4
LimiterMaxNow == 2
Identifiers == {"default", "file_access"}

InitLimiter ==
    /\ CoreAtRest
    /\ log = <<>>
    /\ budget = LimiterCalls
    /\ now = 0
    /\ limiter = RateLimiter(LimiterMaxRequests, LimiterWindow)
    /\ cache = FileHashCache(500)
    /\ monitor = SecurityMonitor
    /\ current_operations = 0
    /\ callers = <<>>

\* one call of the limiter, entered in the history
LimiterCall(op, identifier, result) ==
    /\ budget > 0
    /\ budget' = budget - 1
    /\ limiter' = result.obj
    /\ log' = Append(log, [op |-> op, id |-> identifier, t |-> now, res |-> result.res])
    /\ UNCHANGED <<coreVars, now, cache, monitor, current_operations, callers>>

CallIsAllowed(identifier) ==
    LimiterCall("is_allowed", identifier, IsAllowed(limiter, identifier, now))

CallGetRemainingRequests(identifier) ==
    LimiterCall("get_remaining_requests", identifier,
                GetRemainingRequests(limiter, identifier, now))

CallReset(identifier) ==
    LimiterCall("reset", identifier, [res |-> "None", obj |-> ResetLimiter(limiter, identifier)])

NextLimiter ==
    \/ \E identifier \in Identifiers : CallIsAllowed(identifier)
    \/ \E identifier \in Identifiers : CallGetRemainingRequests(identifier)
    \/ \E identifier \in Identifiers : CallReset(identifier)
    \/ Tick(LimiterMaxNow)

SpecLimiter == InitLimiter /\ [][NextLimiter]_vars

(***************************************************************************)
(* A SecurityHardening object and its callers (SpecHardening)              *)
(*                                                                         *)
(* Each caller runs check_file_security, then start_operation if the check *)
(* passed, then end_operation; the calls of different callers interleave.  *)
(* callers[c] = [pc, path, res]: where the caller stands, the file it      *)
(* asked about and the answer it got.                                      *)
(***************************************************************************)
NCallers == 4
HardeningEvents == 5
HardeningPaths == {"a.jpg", "b.jpg"}

FILE_BLOCKED == "File is blocked due to suspicious activity"
CEILING_REACHED == "Maximum concurrent operations exceeded"

InitHardening ==
    /\ CoreAtRest
    /\ log = <<>>
    /\ budget = HardeningEvents
    /\ now = 0
    /\ limiter = RateLimiter(20, 60)
    /\ cache = FileHashCache(500)
    /\ monitor = SecurityMonitor
    /\ current_operations = 0
    /\ callers = [c \in 1..NCallers |-> [pc |-> "idle", path |-> "", res |-> ""]]

\* caller c calls check_file_security(file_path)
Check(c, file_path) ==
    /\ callers[c].pc = "idle"
    /\ LET checked == CheckFileSecurity(monitor, limiter, current_operations, file_path, now)
       IN /\ limiter' = checked.obj
          /\ callers' = [callers EXCEPT
                ![c] = [pc |-> IF checked.res = PASS THEN "checked" ELSE "rejected",
                        path |-> file_path, res |-> checked.res]]
    /\ UNCHANGED <<coreVars, log, budget, now, cache, monitor, current_operations>>

\* caller c calls start_operation (lines 269-272)
StartOperation(c) ==
    /\ callers[c].pc = "checked"
    /\ current_operations' = current_operations + 1
    /\ callers' = [callers EXCEPT ![c].pc = "started"]
    /\ UNCHANGED <<coreVars, log, budget, now, limiter, cache, monitor>>

\* caller c calls end_operation (lines 274-277)
EndOperation(c) ==
    /\ callers[c].pc = "started"
    /\ current_operations' = IF current_operations - 1 > 0 THEN current_operations - 1 ELSE 0
    /\ callers' = [callers EXCEPT ![c].pc = "done"]
    /\ UNCHANGED <<coreVars, log, budget, now, limiter, cache, monitor>>

\* log_security_event (lines 298-306)
LogSecurityEvent(event_type, file_path) ==
    /\ budget > 0
    /\ budget' = budget - 1
    /\ monitor' = LogSuspiciousEvent(monitor, event_type, file_path, now)
    /\ UNCHANGED <<coreVars, log, now, limiter, cache, current_operations, callers>>

NextHardening ==
    \/ \E c \in DOMAIN callers, file_path \in HardeningPaths : Check(c, file_path)
    \/ \E c \in DOMAIN callers : StartOperation(c)
    \/ \E c \in DOMAIN callers : EndOperation(c)
    \/ LogSecurityEvent("invalid_header", "a.jpg")

SpecHardening == InitHardening /\ [][NextHardening]_vars

(***************************************************************************)
(* A FileHashCache and its callers (SpecCache)                             *)
(*                                                                         *)
(* log is the history of the calls: [op, path, key, hit, res].             *)
(***************************************************************************)
CacheMaxSize == 2
CacheCalls == 5

\* what os.stat and a read show of the files; "gone.jpg" does not exist and
\* "locked.jpg" cannot be opened
CacheFiles ==
    [p \in {"a.jpg", "b.jpg", "c.jpg", "t.tif", "locked.jpg"} |->
        [size |-> IF p = "c.jpg" THEN 1500 ELSE 2048,
         mtime |-> IF p = "b.jpg" THEN 7 ELSE 5,
         readable |-> p # "locked.jpg",
         data |-> IF p = "b.jpg" THEN "bytes of a.jpg" ELSE "bytes of " \o p]]
CachePaths == DOMAIN CacheFiles \cup {"gone.jpg"}

InitCache ==
    /\ CoreAtRest
    /\ log = <<>>
    /\ budget = CacheCalls
    /\ now = 0
    /\ limiter = RateLimiter(20, 60)
    /\ cache = FileHashCache(CacheMaxSize)
    /\ monitor = SecurityMonitor
    /\ current_operations = 0
    /\ callers = <<>>

CacheCall(entry, after) ==
    /\ budget > 0
    /\ budget' = budget - 1
    /\ cache' = after
    /\ log' = Append(log, entry)
    /\ UNCHANGED <<coreVars, now, limiter, monitor, current_operations, callers>>

CallGetFileHash(file_path) ==
    LET got == GetFileHash(cache, CacheFiles, file_path)
        known == file_path \in DOMAIN CacheFiles
    IN CacheCall([op |-> "get_file_hash", path |-> file_path,
                  key |-> IF known THEN FileKey(CacheFiles, file_path) ELSE <<>>,
                  hit |-> known /\ FileKey(CacheFiles, file_path) \in DOMAIN cache.cache,
                  res |-> got.res],
                 got.obj)

CallClear == CacheCall([op |-> "clear"], ClearCache(cache))

NextCache ==
    \/ \E file_path \in CachePaths : CallGetFileHash(file_path)
    \/ CallClear

SpecCache == InitCache /\ [][NextCache]_vars

(***************************************************************************)
(* A SecurityMonitor inside its SecurityHardening object (SpecMonitor)     *)
(*                                                                         *)
(* log holds the last two calls: [op, path, res].                          *)
(***************************************************************************)
MonitorCalls == 7
\* the clock moves by half the monitor's memory, up to the whole of it
MonitorStep == RecentSeconds \div 2
MonitorMaxNow == RecentSeconds
MonitorPaths == {"a.jpg", "b.jpg"}

InitMonitor ==
    /\ CoreAtRest
    /\ log = <<>>
    /\ budget = MonitorCalls
    /\ now = 0
    /\ limiter = RateLimiter(20, 60)
    /\ cache = FileHashCache(500)
    /\ monitor = SecurityMonitor
    /\ current_operations = 0
    /\ callers = <<>>

\* one call, entered in the history
MonitorCall(op, file_path, res) ==
    /\ budget > 0
    /\ budget' = budget - 1
    /\ log' = LastN(Append(log, [op |-> op, path |-> file_path, res |-> res]), 2)
    /\ UNCHANGED <<coreVars, now, cache, current_operations, callers>>

CallLogSuspiciousEvent(event_type, file_path) ==
    /\ MonitorCall("log_suspicious_event", file_path, "None")
    /\ monitor' = LogSuspiciousEvent(monitor, event_type, file_path, now)
    /\ UNCHANGED limiter

CallUnblockFile(file_path) ==
    /\ MonitorCall("unblock_file", file_path, "None")
    /\ monitor' = UnblockFile(monitor, file_path)
    /\ UNCHANGED limiter

CallCheckFileSecurity(file_path) ==
    LET checked == CheckFileSecurity(monitor, limiter, current_operations, file_path, now)
    IN /\ MonitorCall("check_file_security", file_path, checked.res)
       /\ limiter' = checked.obj
       /\ UNCHANGED monitor

NextMonitor ==
    \/ \E file_path \in MonitorPaths : CallLogSuspiciousEvent("invalid_header", file_path)
    \/ \E file_path \in MonitorPaths : CallUnblockFile(file_path)
    \/ \E file_path \in MonitorPaths : CallCheckFileSecurity(file_path)
    \/ Elapse(MonitorStep, MonitorMaxNow)

SpecMonitor == InitMonitor /\ [][NextMonitor]_vars

(***************************************************************************)
(* The window and its save dialogs (SpecWindow)                            *)
(*                                                                         *)
(* A save dialog is not modal and its response arrives as a later event of *)
(* the main loop; win.dialogs lists the open dialogs, each with the image  *)
(* that was current when it was opened (the one its default file name was  *)
(* made from).  log lists the remove_metadata calls the window has made:   *)
(* [input, asked, output].                                                 *)
(***************************************************************************)
WindowEvents == 6
MaxDialogs == 2
DroppedPaths == {<<"a.jpg">>, <<"t.tif">>}
ChosenPaths == {<<"c.jpg">>}

InitWindow ==
    /\ CoreAtRest
    /\ log = <<>>
    /\ budget = WindowEvents
    /\ HardeningInit

WindowEvent(after) ==
    /\ budget > 0
    /\ budget' = budget - 1
    /\ win' = after
    /\ UNCHANGED <<fs, env, pc, call, doc, ret, pre, written, prev, heap, held, handles,
                   hardeningVars>>

\* window.py:280-300
ResetUiState(w) == [w EXCEPT !.current_image_path = NoneP, !.save_sensitive = FALSE]

\* load_image (lines 82-106): the path is stored first; an exception on the
\* way resets the UI
LoadImage(w, file_path, loads) ==
    LET stored == [w EXCEPT !.current_image_path = file_path]
    IN IF loads THEN [stored EXCEPT !.save_sensitive = TRUE] ELSE ResetUiState(stored)

\* on_drop of a file that passes validation and the format check
OnDrop(file_path, loads) ==
    /\ WindowEvent(LoadImage(win, file_path, loads))
    /\ UNCHANGED log

\* on_save_clean_copy, from the button or the shortcut (lines 179-219, 241-245)
OnSaveCleanCopy ==
    /\ win.save_sensitive
    /\ win.current_image_path # NoneP
    /\ Len(win.dialogs) < MaxDialogs
    /\ WindowEvent([win EXCEPT !.dialogs = Append(@, [asked |-> win.current_image_path])])
    /\ UNCHANGED log

\* on_save_response for the i-th open dialog (lines 221-239)
OnSaveResponse(i, accept, output_path) ==
    /\ i \in 1..Len(win.dialogs)
    /\ WindowEvent([win EXCEPT !.dialogs = SubSeq(@, 1, i - 1) \o SubSeq(@, i + 1, Len(@))])
    /\ log' = IF accept /\ output_path # NoneP
              THEN Append(log, [input |-> win.current_image_path,
                                asked |-> win.dialogs[i].asked,
                                output |-> output_path])
              ELSE log

NextWindow ==
    \/ \E file_path \in DroppedPaths, loads \in BOOLEAN : OnDrop(file_path, loads)
    \/ OnSaveCleanCopy
    \/ \E i \in 1..MaxDialogs, accept \in BOOLEAN, output_path \in ChosenPaths :
          OnSaveResponse(i, accept, output_path)

SpecWindow == InitWindow /\ [][NextWindow]_vars

(***************************************************************************)
(* Properties                                                              *)
(***************************************************************************)
StripEvents == {"piexif.remove", "Image.save"}
DecodeEvents == {"piexif.load", "Image.getexif", "Image.open"} \cup StripEvents

RemoveDone == pc = "done" /\ call.op = "remove"
ExtractDone == pc = "done" /\ call.op = "extract"

\* C1: during remove_metadata(input, output) nothing is opened for writing
\* unless the canonical output path differs from the canonical input path,
\* and no location written is the one the input resolves to.
C1_OutputNeverResolvesToInput ==
    (call.op = "remove" /\ written # {}) =>
        /\ RealPath(pre, call.out) # RealPath(pre, call.inp)
        /\ RealPath(pre, call.inp) \notin written

\* C2: remove_metadata(p, p) returns false, leaves the whole filesystem as it
\* was, and invokes neither strip method.
C2_SamePathRefused ==
    (RemoveDone /\ call.inp = call.out) =>
        /\ ret = RetBool(FALSE)
        /\ fs = pre
        /\ \A i \in 1..Len(log) : log[i].ev \notin StripEvents

\* C3: within a call, a decoder or strip routine runs on an input only after
\* validate_file_security passed that same input, and a failing verdict ends
\* the call at once: an error document for extract, false for remove.
C3_DecodeOnlyAfterPass ==
    /\ \A i \in 1..Len(log) :
          log[i].ev \in DecodeEvents =>
              /\ log[i].src = call.inp
              /\ \E j \in 1..(i - 1) :
                    log[j] = Ev("validate_file_security", log[i].src, NoneP, PASS)
    /\ (log # <<>> /\ log[1].res # PASS) =>
          /\ Len(log) = 1
          /\ pc = "done"
          /\ call.op = "extract" => (ret.kind = "doc" /\ DOMAIN ret.val = {"error"})
          /\ call.op = "remove" => ret = RetBool(FALSE)

\* a call in which validation passed and both strip routines then ran
C3_Witness ==
    /\ Len(log) = 4 /\ log[1].res = PASS /\ log[4].ev = "Image.save"

\* C5: whatever fails inside, extract_metadata hands back a document and
\* remove_metadata a boolean; nothing is raised to the caller.
C5_NothingEscapes ==
    pc = "done" =>
        /\ ret.kind # "raise"
        /\ call.op = "extract" => ret.kind = "doc"
        /\ call.op = "remove" => (ret.kind = "bool" /\ ret.val \in BOOLEAN)

\* a remove call in which both methods raised
C5_Witness ==
    /\ RemoveDone /\ Len(log) = 4
    /\ log[3].res = "raise" /\ log[4].res = "raise"

\* C6: once both validations pass, method 1 runs exactly once on the caller's
\* paths; if it succeeds the call returns true and method 2 never runs; if it
\* fails method 2 runs exactly once; the result is true iff one of them
\* succeeded.
C6_OneRetryThroughFallback ==
    (RemoveDone /\ Len(log) >= 2 /\ log[1].res = PASS /\ log[2].res = PASS) =>
        /\ Len(log) >= 3
        /\ log[3].ev = "piexif.remove" /\ log[3].src = call.inp /\ log[3].dst = call.out
        /\ IF log[3].res = "ok"
           THEN Len(log) = 3 /\ ret = RetBool(TRUE)
           ELSE /\ Len(log) = 4
                /\ log[4].ev = "Image.save" /\ log[4].src = call.inp /\ log[4].dst = call.out
                /\ ret = RetBool(log[4].res = "ok")

\* method 1 failed part-way, method 2 then succeeded
C6_Witness ==
    /\ RemoveDone /\ Len(log) = 4
    /\ log[3].res = "partial" /\ log[4].res = "ok" /\ ret = RetBool(TRUE)

\* C7: when remove_metadata returns false the output path holds exactly what
\* it held before the call.
C7_NoPartialOutput ==
    (RemoveDone /\ ret = RetBool(FALSE)) =>
        Node(fs, Lookup(pre, call.out)) = Node(pre, Lookup(pre, call.out))

\* C10: a document returned by extract_metadata has 'error' as its only key
\* or no 'error' key at all, and the dict it builds never holds 'error'.
C10_ErrorExcludesSections ==
    /\ "error" \notin DOMAIN doc
    /\ ExtractDone =>
          /\ ret.kind = "doc"
          /\ "error" \in DOMAIN ret.val => DOMAIN ret.val = {"error"}

\* an error document was returned for a file that failed a later stage
C10_Witness ==
    /\ ExtractDone /\ ret = RetDoc(ErrorDoc("File is empty"))

\* C4: validate_file_security passes only if every stage passes; otherwise
\* its message is that of the first stage, in the order existence, regular
\* file, readable, non-empty, size ceiling, extension, MIME type, header,
\* image bounds, that the file fails.
StageMessages == <<"File does not exist", "Path is not a regular file", "File is not readable",
                   "File is empty", "File too large (max 100MB)", "Unsupported file format",
                   "Invalid MIME type for file",
                   "Invalid file header - possible file type mismatch",
                   "Invalid or potentially malicious image">>

StageFails(i, f, e, p) ==
    LET loc == RealPath(f, p)
        isFile == Node(f, loc).kind = "file"
    IN CASE i = 1 -> ~Exists(f, p)
         [] i = 2 -> ~isFile
         [] i = 3 -> isFile /\ ~Node(f, loc).readable
         [] i = 4 -> isFile /\ Node(f, loc).size = 0
         [] i = 5 -> isFile /\ Node(f, loc).size > 104857600
         [] i = 6 -> Lower(SplitExt(BaseName(loc))) \notin {".jpg", ".jpeg", ".tiff", ".tif"}
         [] i = 7 -> GuessType(loc) \notin {"image/jpeg", "image/tiff"}
         [] i = 8 -> isFile /\ ~ValidateFileHeader(f, loc)
         [] i = 9 -> isFile /\ ~ValidateImageProperties(f, e, loc)

FailingStages(f, e, p) == {i \in 1..Len(StageMessages) : StageFails(i, f, e, p)}

C4_EarliestFailingStage ==
    (pc = "done" /\ call.op = "validate" /\ call.inp # NoneP) =>
        LET failing == FailingStages(pre, env, call.inp) IN
        IF failing = {} THEN ret.val = PASS
        ELSE ret.val = StageMessages[CHOOSE i \in failing : \A j \in failing : i <= j]

\* an empty file under an unsupported name: four later stages fail as well
C4_Witness ==
    /\ pc = "done" /\ call.op = "validate" /\ call.inp = <<"x.png">>
    /\ ret.val = "File is empty"
    /\ {4, 6, 8} \subseteq FailingStages(pre, env, call.inp)

(***************************************************************************)
(* Round trips: a strip followed by another call on its output (SpecSeq)   *)
(***************************************************************************)
\* the previous call was a successful remove_metadata and this call reads
\* the file it wrote
ReadsStrippedOutput ==
    /\ prev.call.op = "remove" /\ prev.ret = RetBool(TRUE)
    /\ call.inp = prev.call.out

\* the tags a document lists, as <<section, tag>>; 'File Info' is not a tag section
TagsOf(d) ==
    UNION {{<<k, t>> : t \in DOMAIN d[k]} : k \in (DOMAIN d) \ {"File Info", "error", "info"}}

\* the tags a stripped TIFF still needs: its container's, and the colour profile
ContainerTags == StructuralTags \cup {ProfileTag}

\* C8 (as stated): extract_metadata on the output of a successful
\* remove_metadata returns no 'GPS Location' section and at most 2 tags.
C8_AtMostTwoResidualTags ==
    (ExtractDone /\ ReadsStrippedOutput) =>
        /\ "GPS Location" \notin DOMAIN ret.val
        /\ Cardinality(TagsOf(ret.val)) <= 2

\* C8 (amended): extract_metadata on the output of a successful
\* remove_metadata returns no 'GPS Location', 'EXIF Details', 'Thumbnail' or
\* 'Interoperability' section; a JPEG output lists no tag at all, and a TIFF
\* output lists only the tags the encoder wrote from the image itself
\* (container tags and the preserved colour profile), which can be more
\* than 2.
C8_OnlyContainerTagsRemain ==
    (ExtractDone /\ ReadsStrippedOutput) =>
        /\ DOMAIN ret.val \subseteq {"EXIF", PillowSectionName, "File Info", "error", "info"}
        /\ \A kt \in TagsOf(ret.val) : kt[2] \in ContainerTags
        /\ Node(pre, Lookup(pre, call.inp)).header = "jpeg" => TagsOf(ret.val) = {}

\* a TIFF rebuilt by the fallback is read back with more than 2 tags
C8_Witness ==
    /\ ExtractDone /\ ReadsStrippedOutput
    /\ Node(pre, Lookup(pre, call.inp)).header = "tiff"
    /\ Cardinality(TagsOf(ret.val)) > 2

\* the tags a file carries, per IFD
Profile(node) == IF node.kind = "file" THEN node.exif.ifd ELSE NoTags

InputNode == Node(pre, Lookup(pre, call.inp))
OutputNode == Node(fs, Lookup(pre, call.out))

\* two consecutive extract_metadata calls on one path return the same document
ExtractStable == (ExtractDone /\ prev.call = call) => ret = prev.ret

\* C9 (as stated): remove_metadata on the output of remove_metadata writes a
\* file whose metadata profile is that of its input, and empty; extract_metadata
\* twice on one unchanged file returns the same document.
C9_StripTwiceLeavesEmptyProfile ==
    /\ (RemoveDone /\ ret = RetBool(TRUE) /\ ReadsStrippedOutput) =>
          /\ Profile(OutputNode) = Profile(InputNode)
          /\ Profile(OutputNode) = NoTags
    /\ ExtractStable

\* C9 (amended): remove_metadata on the output of remove_metadata writes a
\* file whose metadata profile is that of its input: empty for a JPEG, the
\* container tags and colour profile in the main IFD for a TIFF;
\* extract_metadata twice on one unchanged file returns the same document.
C9_StripTwiceKeepsProfile ==
    /\ (RemoveDone /\ ret = RetBool(TRUE) /\ ReadsStrippedOutput) =>
          /\ Profile(OutputNode) = Profile(InputNode)
          /\ \A i \in IFDSet :
                DOMAIN Profile(OutputNode)[i] \subseteq
                    (IF i = "0th" /\ OutputNode.header = "tiff" THEN ContainerTags ELSE {})
    /\ ExtractStable

\* a stripped TIFF was stripped again and kept its container tags
C9_Witness ==
    /\ RemoveDone /\ ret = RetBool(TRUE) /\ ReadsStrippedOutput
    /\ OutputNode.header = "tiff"
    /\ Profile(OutputNode) # NoTags

(***************************************************************************)
(* What extract_metadata returns once validation has passed                *)
(***************************************************************************)
\* an extract_metadata call that got past the security gate and has returned
ExtractedAfterPass == ExtractDone /\ log[1].res = PASS /\ Len(log) >= 2

PrimaryFailed == log[2].ev = "piexif.load" /\ log[2].res = "raise"
FallbackRan == \E i \in 1..Len(log) : log[i].ev = "Image.getexif"
FallbackFailed == \E i \in 1..Len(log) : log[i].ev = "Image.getexif" /\ log[i].res = "raise"
FileInfoFailed == log[Len(log)].ev = "Image.open" /\ log[Len(log)].res = "raise"

CanonicalSections == {section_names[i] : i \in IFDSet}

\* what the fallback decoder reads from the call's file: its formatted tags
FallbackRead ==
    IF ImageOpenOK(pre, env, call.inp)
    THEN SectionData(GetExif(pre, call.inp), DOMAIN GetExif(pre, call.inp))
    ELSE <<>>

\* the sections the decoders yield for the call's file, by the path taken
DecodedSections ==
    IF PiexifLoadOK(pre, env, call.inp) THEN ProcessPiexifData(PiexifLoad(pre, call.inp))
    ELSE IF FallbackRead # <<>> THEN [k \in {PillowSectionName} |-> FallbackRead]
    ELSE EmptyDoc

\* C11: when validation passes and both decoders fail, extract_metadata
\* returns a document whose only key is 'error'.
C11_DecodeFailureIsAnError ==
    (ExtractedAfterPass /\ PrimaryFailed /\ FallbackFailed) => DOMAIN ret.val = {"error"}

\* with the fallback section under `label`: the fallback decoder runs iff the
\* primary one failed; then all it reads is the section `label` and no
\* canonical section is there; after a primary success `label` is absent
FallbackContract(label) ==
    ExtractedAfterPass =>
        /\ FallbackRan <=> PrimaryFailed
        /\ PrimaryFailed =>
              /\ DOMAIN ret.val \cap CanonicalSections = {}
              /\ DOMAIN ret.val \subseteq {label, "File Info", "info"}
              /\ IF FallbackRead # <<>>
                 THEN label \in DOMAIN ret.val /\ ret.val[label] = FallbackRead
                 ELSE label \notin DOMAIN ret.val
        /\ ~PrimaryFailed => label \notin DOMAIN ret.val

\* C12 (as stated): the fallback decoder runs iff the primary decode failed;
\* what it reads is the single section 'EXIF (fallback)', with no canonical
\* section beside it; after a primary success that section is absent.
C12_FallbackSectionNamedFallback == FallbackContract("EXIF (fallback)")

\* C12 (amended): the same, the section being labelled 'EXIF (Pillow)'.
C12_FallbackSectionNamedPillow == FallbackContract(PillowSectionName)

\* the primary decoder failed and the fallback decoder supplied the tags
C12_Witness ==
    /\ ExtractedAfterPass /\ PrimaryFailed
    /\ PillowSectionName \in DOMAIN ret.val

\* C13: extract_metadata never returns an empty mapping; after validation
\* passes it returns {info: 'No metadata found'} exactly when neither
\* decoder nor the file information populated a section; 'info' never comes
\* with any other key.
C13_InfoIffNothingPopulated ==
    ExtractDone =>
        /\ ret.val # EmptyDoc
        /\ "info" \in DOMAIN ret.val => ret.val = InfoDoc
        /\ ExtractedAfterPass =>
              (ret.val = InfoDoc <=>
                  (DecodedSections = EmptyDoc /\ GetFileInfo(pre, env, call.inp) = <<>>))

\* validation passed and nothing could be read from the file
C13_Witness ==
    /\ ExtractedAfterPass /\ ret = RetDoc(InfoDoc)
    /\ doc = EmptyDoc

(***************************************************************************)
(* format_metadata_value called directly, and again on its own result      *)
(***************************************************************************)
MaxLen == 3
Alphabet == {NUL, 32, 97, 200}
Texts == UNION {[1..k -> Alphabet] : k \in 0..MaxLen}
IntV(n) == [t |-> "int", v |-> n]
BytesV(s) == [t |-> "bytes", v |-> s]
StrV(s) == [t |-> "str", v |-> s]
TupleV(items) == [t |-> "tuple", v |-> items]
ListV(items) == [t |-> "list", v |-> items]
NoneV == [t |-> "none", v |-> <<>>]

Numerators == {0 - 4, 0 - 1, 0, 1, 2, 3, 7, 100, 99999, 200001, 1999999, 2000001, 123456789}
Denominators == {0, 1, 2, 0 - 2, 3, 8, 100, 1000, 30000, 32768, 100000}
Pairs ==
    {TupleV(<<IntV(n), IntV(d)>>) : n \in Numerators, d \in Denominators}
    \cup {TupleV(<<HugeInt, IntV(1)>>), TupleV(<<HugeInt, IntV(0)>>),
          TupleV(<<IntV(1), HugeInt>>), TupleV(<<HugeInt, HugeInt>>)}
Sequences ==
    {TupleV(<<>>), ListV(<<>>), ListV(<<IntV(1), IntV(2)>>), TupleV(<<IntV(1), IntV(2), IntV(3)>>),
     TupleV(<<BytesV(<<97>>), BytesV(<<>>)>>), TupleV(<<BytesV(<<NUL>>), NoneV>>),
     TupleV(<<TupleV(<<IntV(1), IntV(2)>>), TupleV(<<IntV(3), IntV(4)>>)>>),
     TupleV(<<TupleV(<<IntV(40), IntV(1)>>), TupleV(<<IntV(42), IntV(1)>>), TupleV(<<IntV(4620), IntV(100)>>)>>),
     ListV(<<StrV(<<32, 97>>), StrV(<<98>>), StrV(<<>>)>>),
     ListV(<<TupleV(<<IntV(1), IntV(0)>>), ListV(<<NoneV>>), BytesV(<<97, NUL, 98>>)>>),
     TupleV(<<IntV(7), TupleV(<<HugeInt, IntV(3)>>)>>)}
RawValues ==
    {NoneV} \cup {BytesV(s) : s \in Texts} \cup {StrV(s) : s \in Texts}
    \cup {IntV(n) : n \in Numerators} \cup {HugeInt} \cup Pairs \cup Sequences

RetStr(s) == [kind |-> "str", val |-> s]
FormatResult(value) ==
    IF FormatOutcome(value).raised THEN Raised ELSE RetStr(FormatMetadataValue(value))

InitFmt ==
    /\ fs = InitFs(GoodJpeg)
    /\ env = [hasPIL |-> TRUE, hasPiexif |-> TRUE]
    /\ pc = "idle"
    /\ call = NoCall
    /\ doc = EmptyDoc
    /\ log = <<>>
    /\ ret = NoRet
    /\ pre = fs
    /\ written = {}
    /\ prev = NoPrev
    /\ budget = 1
    /\ heap = InitHeap
    /\ held = {}
    /\ handles = <<>>
    /\ HardeningInit
    /\ win = NewWindow

\* format_metadata_value(value)
FormatValue(value) ==
    /\ pc = "idle" /\ budget > 0
    /\ budget' = budget - 1
    /\ call' = [op |-> "format", inp |-> value, out |-> NoneP]
    /\ Finish(FormatResult(value))
    /\ UNCHANGED <<hardeningVars, handles, win, heap, held, fs, env, doc, log, pre, written, prev>>

\* format_metadata_value(result), result being the string just returned
FormatAgain ==
    /\ pc = "done" /\ call.op = "format" /\ ret.kind = "str" /\ prev = NoPrev
    /\ prev' = [call |-> call, ret |-> ret]
    /\ call' = [op |-> "format", inp |-> StrV(ret.val), out |-> NoneP]
    /\ Finish(FormatResult(StrV(ret.val)))
    /\ UNCHANGED <<hardeningVars, handles, win, heap, held, fs, env, doc, log, pre, written, budget>>

NextFmt ==
    \/ \E value \in RawValues : FormatValue(value)
    \/ FormatAgain
    \/ Return

SpecFmt == InitFmt /\ [][NextFmt]_vars

FormatDone == pc = "done" /\ call.op = "format"
\* the call just made was on a raw value, not on an earlier result
FirstPass == FormatDone /\ prev = NoPrev

\* C16: format_metadata_value(format_metadata_value(v)) equals
\* format_metadata_value(v) for every raw value v.
C16_FormatIdempotent ==
    (FormatDone /\ prev # NoPrev) => ret = prev.ret

\* C17: format_metadata_value returns a string for every raw value; it
\* never raises.
C17_FormatNeverRaises ==
    FormatDone => ret.kind = "str"

\* the call was on a pair of ints of ordinary size
PairOfInts ==
    /\ call.inp.t = "tuple" /\ Len(call.inp.v) = 2
    /\ call.inp.v[1].t = "int" /\ call.inp.v[2].t = "int"
Numer == call.inp.v[1].v
Denom == call.inp.v[2].v
ExactQuotient == Denom # 0 /\ Abs(Numer) % Abs(Denom) = 0
Inexact == Denom # 0 /\ Abs(Numer) % Abs(Denom) # 0

Contains(s, c) == \E i \in 1..Len(s) : s[i] = c
\* the digits of a rendering that count: those before any exponent, without
\* leading zeros
Mantissa(s) ==
    LET upto == IF Contains(s, 101) THEN (CHOOSE i \in 1..Len(s) : s[i] = 101) - 1 ELSE Len(s)
        digits == SelectSeq(SubSeq(s, 1, upto), LAMBDA c : c \in 48..57)
    IN LStrip(digits, {48})

\* what the claim says of every pair: the numerator for a zero denominator,
\* the integer quotient when exact, and its four examples
PairBasics ==
    /\ ret.kind = "str"
    /\ Denom = 0 => ret.val = StrInt(Numer)
    /\ ExactQuotient =>
          ret.val = StrInt(IF (Numer < 0) # (Denom < 0)
                           THEN 0 - (Abs(Numer) \div Abs(Denom))
                           ELSE Abs(Numer) \div Abs(Denom))
    /\ (Numer = 100 /\ Denom = 1) => ret.val = <<49, 48, 48>>
    /\ (Numer = 0 /\ Denom = 1) => ret.val = <<48>>
    /\ (Numer = 100 /\ Denom = 0) => ret.val = <<49, 48, 48>>
    /\ (Numer = 1 /\ Denom = 100) => ret.val = <<48, 46, 48, 49>>

\* a longer (or non-integer) sequence: element by element, non-empty results
\* joined by ', '
SequenceJoined ==
    (FirstPass /\ call.inp.t \in {"tuple", "list"} /\ ~PairOfInts /\ ret.kind = "str"
        /\ ~(Len(call.inp.v) = 2 /\ IsInt(call.inp.v[1]) /\ IsInt(call.inp.v[2]))) =>
        ret.val = JoinNonEmpty([i \in 1..Len(call.inp.v) |-> FormatMetadataValue(call.inp.v[i])])

TagSectionsOf(d) == (DOMAIN d) \ {"File Info", "error", "info"}
NonBlank(s) == s # <<>> /\ Strip(s, Whitespace) # <<>>

\* the file the call read, and the tags of IFD i a document should list
ReadFile == Node(pre, Lookup(pre, call.inp))
Listed(i) ==
    {t \in (DOMAIN ReadFile.exif.ifd[i]) \cap KnownTags :
        /\ ~FormatOutcome(ReadFile.exif.ifd[i][t]).raised
        /\ NonBlank(FormatMetadataValue(ReadFile.exif.ifd[i][t]))}

C15_FileInfoFailureOnlyOmits ==
    ExtractedAfterPass =>
        /\ log[Len(log)].ev = "Image.open"
        /\ "error" \notin DOMAIN ret.val
        /\ "File Info" \in DOMAIN ret.val <=> ~FileInfoFailed
        /\ TagSectionsOf(ret.val) = DOMAIN DecodedSections
        /\ \A k \in DOMAIN DecodedSections : ret.val[k] = DecodedSections[k]

\* the decoder's sections came back although the file information failed
C15_Witness ==
    /\ ExtractedAfterPass /\ FileInfoFailed
    /\ "GPS Location" \in DOMAIN ret.val

\* the entries of the document's tag sections, as <<section, tag>>
ShownTags ==
    {e \in {<<section_names[i], t>> : i \in IFDSet, t \in KnownTags}
              \cup {<<PillowSectionName, t>> : t \in KnownTags} :
        e[1] \in DOMAIN ret.val /\ e[2] \in DOMAIN ret.val[e[1]]}

\* the raw value behind an entry of the document
RawOf(e) ==
    IF e[1] = PillowSectionName THEN ReadFile.exif.ifd["0th"][e[2]]
    ELSE ReadFile.exif.ifd[CHOOSE i \in IFDSet : section_names[i] = e[1]][e[2]]

\* C18: no string in a section of a returned document holds a NUL
\* character, and bytes that are not valid UTF-8 are never shown as they
\* are, byte for code point.
C18_SectionStringsSanitized ==
    ExtractedAfterPass =>
        \A e \in ShownTags :
            /\ ~Contains(ret.val[e[1]][e[2]], NUL)
            /\ (RawOf(e).t = "bytes" /\ ~Utf8Valid(RawOf(e).v)) =>
                  ret.val[e[1]][e[2]] # Strip(RawOf(e).v, {NUL})

\* the bounds the image must be within, as the claim lists them
WithinBounds(img) ==
    /\ img.ok
    /\ 1 <= img.width /\ img.width <= 50000
    /\ 1 <= img.height /\ img.height <= 50000
    /\ img.width * img.height <= 100000000
    /\ img.mode \in {"RGB", "RGBA", "L", "P", "CMYK", "YCbCr", "LAB", "HSV"}
    /\ img.format \in {"JPEG", "TIFF"}

ValidateDone == pc = "done" /\ call.op = "validate" /\ call.inp # NoneP

\* C20: with the image decoder available the bounds check passes iff the
\* image opens, each side is in 1..50,000, the pixel count is at most
\* 100,000,000, the mode is one of the eight listed and the format is JPEG
\* or TIFF; so a file that passes every earlier stage is passed iff its
\* image is within these bounds.
C20_BoundsCheckExact ==
    /\ env.hasPIL =>
          \A loc \in DOMAIN fs :
              fs[loc].kind = "file" =>
                  (ValidateImageProperties(fs, env, loc) <=> WithinBounds(fs[loc].img))
    /\ (ValidateDone /\ env.hasPIL /\ FailingStages(pre, env, call.inp) \cap (1..8) = {}) =>
          (ret.val = PASS <=> WithinBounds(Node(pre, RealPath(pre, call.inp)).img))

\* a 10,001 x 10,001 image, each side under the cap, was turned away
C20_Witness ==
    /\ ValidateDone /\ env.hasPIL
    /\ Node(pre, RealPath(pre, call.inp)).kind = "file"
    /\ Node(pre, RealPath(pre, call.inp)).img.ok
    /\ Node(pre, RealPath(pre, call.inp)).img.width = 10001
    /\ Node(pre, RealPath(pre, call.inp)).img.height = 10001
    /\ ret.val = "Invalid or potentially malicious image"

(***************************************************************************)
(* The reasons validation gives (SpecV)                                    *)
(***************************************************************************)
\* which of _validate_image_properties' checks turns an image away, in the
\* order the code makes them (lines 144-167); "open" when it does not decode
BoundsCheck(img) ==
    CASE ~img.ok -> "open"
      [] img.width <= 0 \/ img.height <= 0 -> "InvalidDimensions"
      [] img.width > 50000 \/ img.height > 50000 -> "InvalidDimensions"
      [] img.width * img.height > 100000000 -> "TooManyPixels"
      [] img.mode \notin {"RGB", "RGBA", "L", "P", "CMYK", "YCbCr", "LAB", "HSV"} -> "UnsupportedMode"
      [] img.format \notin {"JPEG", "TIFF"} -> "UnsupportedFormat"
      [] OTHER -> "none"

BoundsReasons == {"InvalidDimensions", "TooManyPixels", "UnsupportedMode", "UnsupportedFormat"}

\* the filesystem with another image behind the same name
WithImage(f, loc, im) == [f EXCEPT ![loc] = [@ EXCEPT !.img = im, !.header = HeaderOf(im)]]

ValidatedImage == Node(pre, RealPath(pre, call.inp)).img

\* C21: a file turned away by the bounds check gets a verdict that tells
\* which check failed: two files that fail different checks (dimensions,
\* pixel budget, colour mode, decoder format) and nothing else never get the
\* same verdict.
C21_BoundsVerdictTellsCheck ==
    (/\ ValidateDone /\ env.hasPIL
     /\ FailingStages(pre, env, call.inp) = {9}
     /\ BoundsCheck(ValidatedImage) \in BoundsReasons) =>
        \A im \in ImagesV :
            LET other == WithImage(pre, RealPath(pre, call.inp), im) IN
            (/\ FailingStages(other, env, call.inp) = {9}
             /\ BoundsCheck(im) \in BoundsReasons
             /\ BoundsCheck(im) # BoundsCheck(ValidatedImage)) =>
                ValidateFileSecurity(other, env, call.inp) # ret.val

\* the format each of the three signals denotes
FormatOfExtension(loc) ==
    CASE Lower(SplitExt(BaseName(loc))) \in {".jpg", ".jpeg"} -> "JPEG"
      [] Lower(SplitExt(BaseName(loc))) \in {".tiff", ".tif"} -> "TIFF"
      [] OTHER -> "none"
FormatOfMagic(header) ==
    CASE header = "jpeg" -> "JPEG"
      [] header = "tiff" -> "TIFF"
      [] OTHER -> "none"
FormatOfMime(mime) ==
    CASE mime = "image/jpeg" -> "JPEG"
      [] mime = "image/tiff" -> "TIFF"
      [] OTHER -> "none"

FormatMessages == {"Unsupported file format", "Invalid MIME type for file",
                   "Invalid file header - possible file type mismatch"}

ValidatedLoc == RealPath(pre, call.inp)

\* C22: validation passes only if the extension, the magic bytes and the
\* MIME type of the file all denote JPEG or all denote TIFF; a file that
\* clears the path and size stages while two of the signals disagree, or
\* whose extension is not a supported one, is turned away by one of the three
\* format stages.
C22_FormatSignalsAgree ==
    ValidateDone =>
        LET agree == /\ FormatOfExtension(ValidatedLoc) \in {"JPEG", "TIFF"}
                     /\ FormatOfMagic(Node(pre, ValidatedLoc).header) = FormatOfExtension(ValidatedLoc)
                     /\ FormatOfMime(GuessType(ValidatedLoc)) = FormatOfExtension(ValidatedLoc)
        IN /\ ret.val = PASS => agree
           /\ (FailingStages(pre, env, call.inp) \cap (1..5) = {} /\ ~agree) =>
                 ret.val \in FormatMessages

\* a file named a.jpg that starts with a TIFF magic number was turned away
C22_Witness ==
    /\ ValidateDone
    /\ BaseName(ValidatedLoc) = "a.jpg"
    /\ Node(pre, ValidatedLoc).kind = "file"
    /\ Node(pre, ValidatedLoc).header = "tiff"
    /\ ret.val = "Invalid file header - possible file type mismatch"

\* C23: of the files that reach the size stage (existing, regular, readable)
\* one of 0 bytes is turned away with 'File is empty', one of more than
\* 104,857,600 bytes with 'File too large', and one of 1 to 104,857,600
\* bytes with neither.
C23_SizeStageExact ==
    (ValidateDone /\ FailingStages(pre, env, call.inp) \cap (1..3) = {}) =>
        LET size == Node(pre, ValidatedLoc).size IN
        /\ size = 0 => ret.val = "File is empty"
        /\ size > 104857600 => ret.val = "File too large (max 100MB)"
        /\ (1 <= size /\ size <= 104857600) =>
              ret.val \notin {"File is empty", "File too large (max 100MB)"}

\* a file of exactly 104,857,600 bytes was passed
C23_Witness ==
    /\ ValidateDone
    /\ Node(pre, ValidatedLoc).kind = "file"
    /\ Node(pre, ValidatedLoc).size = 104857600
    /\ ret.val = PASS

(***************************************************************************)
(* The verdict on the output path (Spec)                                   *)
(***************************************************************************)
OutputChecked ==
    /\ call.op = "remove" /\ Len(log) >= 2
    /\ log[2].ev = "validate_output_path" /\ log[2].res # "raise"

\* where the kernel would put the output, and where the input is
OutputTarget == Lookup(pre, call.out)
InputTarget == Lookup(pre, call.inp)

\* C24: validate_output_path returns an error exactly when the output path
\* is empty, its parent directory does not exist or is not writable, or the
\* output names the same file as the input; in every other case it returns
\* None, whether or not a file is already there.
C24_OutputVerdictExact ==
    OutputChecked =>
        (log[2].res = PASS <=>
            /\ call.out # EmptyP
            /\ OutputTarget # NoLoc
            /\ Node(pre, Parent(OutputTarget)).kind = "dir"
            /\ Node(pre, Parent(OutputTarget)).writable
            /\ OutputTarget # InputTarget)

(***************************************************************************)
(* Paths with an unsupported extension (Spec)                              *)
(***************************************************************************)
UnsupportedName(p) ==
    /\ p \notin {NoneP, EmptyP}
    /\ Lower(SplitExt(BaseName(p))) \notin {".jpg", ".jpeg", ".tiff", ".tif"}

\* C25: for a path whose extension is not one of the four supported ones,
\* extract_metadata returns a document whose error is 'Unsupported file
\* format' and remove_metadata returns false, whether or not a file exists
\* at the path.
C25_UnsupportedExtensionReported ==
    /\ (ExtractDone /\ UnsupportedName(call.inp) /\ log[1].res # "raise") =>
          ret = RetDoc(ErrorDoc("Unsupported file format"))
    /\ (RemoveDone /\ UnsupportedName(call.inp)) => ret = RetBool(FALSE)

(***************************************************************************)
(* Path strings and the file they resolve to (SpecV)                       *)
(***************************************************************************)
\* the path string resolves: the kernel's walk ends on an existing entry
Resolves(f, p) == p # NoneP /\ Exists(f, p)

\* the plain name of a location, seen from the working directory: no link,
\* and ".." only to leave the working directory
DirectPath(loc) ==
    IF Len(loc) >= 1 /\ SubSeq(loc, 1, 1) = Cwd THEN SubSeq(loc, 2, Len(loc))
    ELSE <<"..">> \o loc

FileName(p) == SubSeq(p, RFind(p, "/") + 1, Len(p))

\* the extension of a path: the file name from its last dot on, unless the
\* name has no dot or nothing but dots before it
ExtensionOf(p) ==
    LET name == FileName(p)
        dots == {i \in 1..Len(name) : name[i] = "." /\ \E k \in 1..(i - 1) : name[k] # "."}
    IN IF dots = {} THEN <<>>
       ELSE SubSeq(name, CHOOSE i \in dots : \A j \in dots : j <= i, Len(name))

\* two characters that differ at most in case
SameLetter(a, b) ==
    a = b \/ \E i \in 1..26 : {a, b} = {UpperLetters[i], LowerLetters[i]}
SameIgnoringCase(s, t) ==
    Len(s) = Len(t) /\ \A i \in 1..Len(s) : SameLetter(s[i], t[i])

FourFormats == {DotJpg, DotJpeg, DotTiff, DotTif}

SupportedByExtension(p) ==
    /\ p \notin {NoneP, EmptyP}
    /\ \E fmt \in FourFormats : SameIgnoringCase(ExtensionOf(p), fmt)

SupportedAsked == pc = "done" /\ call.op = "is_supported_format"

\* C27: is_supported_format returns true exactly when the extension of the
\* path is, ignoring case, one of .jpg, .jpeg, .tiff, .tif; it returns false
\* for any other extension, for no extension, for "" and for None.
C27_SupportedIffExtension ==
    SupportedAsked => (ret.val <=> SupportedByExtension(call.inp))

\* 't.Jpeg' was found supported
C27_Witness ==
    /\ SupportedAsked
    /\ call.inp = <<"t", ".", "J", "p", "e", "g">>
    /\ ret = RetBool(TRUE)

FormatsAsked == pc = "done" /\ call.op = "get_supported_formats"

\* C28: the set get_supported_formats returns is a copy: whatever the caller
\* has done to the sets it was given, the handler's and the validator's own
\* sets are still {.jpg, .jpeg, .tiff, .tif}, a new call returns exactly that
\* set in an object no caller held before, and is_supported_format and the
\* validator's extension test answer as they did at the start.
C28_ReturnedSetIsACopy ==
    /\ heap[HandlerFormats] = FourFormats
    /\ heap[ValidatorFormats] = FourFormats
    /\ HandlerFormats \notin held /\ ValidatorFormats \notin held
    /\ FormatsAsked => heap[ret.val] = FourFormats
    /\ SupportedAsked => ret.val = IsSupportedFormat(InitHeap, call.inp)
    /\ (pc = "done" /\ call.op = "_is_supported_format") =>
          ret.val = ValidatorIsSupportedFormat(InitHeap, call.inp)

\* the caller added .png to one returned set and dropped .jpg from another,
\* and a later call returned the four formats
C28_Witness ==
    /\ FormatsAsked
    /\ \E i \in held : <<".", "p", "n", "g">> \in heap[i]
    /\ \E i \in held : DotJpg \notin heap[i]
    /\ heap[ret.val] = FourFormats

(***************************************************************************)
(* No state between calls (SpecSeq)                                        *)
(***************************************************************************)
\* extract_metadata as one function of the filesystem and its argument
ExtractResult(f, e, p) ==
    IF ValidateFileSecurity(f, e, p) # PASS THEN ErrorDoc(ValidateFileSecurity(f, e, p))
    ELSE LET decoded == IF PiexifLoadOK(f, e, p)
                        THEN ProcessPiexifData(PiexifLoad(f, p))
                        ELSE ProcessPillowExif(f, e, p)
             metadata == IF GetFileInfo(f, e, p) # <<>>
                         THEN Update(decoded, [k \in {"File Info"} |-> GetFileInfo(f, e, p)])
                         ELSE decoded
         IN IF metadata # EmptyDoc THEN metadata ELSE InfoDoc

\* the call has not gone past its two validations
Validating ==
    \/ call.op = "extract"
    \/ call.op = "remove" /\ pc \in {"r_output", "r_primary"}
    \/ call.op = "remove" /\ pc = "done" /\ log[Len(log)].ev \notin StripEvents

\* C29: validate_file_security, validate_output_path and extract_metadata
\* leave the filesystem and the fields of the handler and the validator as
\* they found them, and their results are those of the arguments and the
\* filesystem at the time of the call, whatever calls came before.
C29_NoStateBetweenCalls ==
    /\ heap = InitHeap
    /\ Validating => fs = pre
    /\ (call.op \in {"extract", "remove"} /\ Len(log) >= 1) =>
          log[1].res = ValidateFileSecurity(pre, env, call.inp)
    /\ (call.op = "remove" /\ Len(log) >= 2) =>
          log[2].res = ValidateOutputPath(pre, call.out, call.inp)
    /\ ExtractDone => ret = RetDoc(ExtractResult(fs, env, call.inp))

\* the same extract_metadata call before and after a strip that replaced
\* the file it reads: two different documents, each that of the file then
C29_Witness ==
    /\ ExtractDone /\ budget = 0
    /\ prev.call.op = "remove" /\ prev.ret = RetBool(TRUE)
    /\ Lookup(fs, prev.call.out) = Lookup(fs, call.inp)
    /\ ret = RetDoc(ExtractResult(fs, env, call.inp))
    /\ "File Info" \in DOMAIN ret.val

\* C30: without the image decoder the bounds check passes every file,
\* whatever its dimensions, pixel count, mode or format, so validation passes
\* every file that clears the path, size, extension, MIME and header stages.
C30_NoDecoderNoBoundsCheck ==
    ~env.hasPIL =>
        /\ \A loc \in DOMAIN fs :
              fs[loc].kind = "file" => ValidateImageProperties(fs, env, loc)
        /\ (ValidateDone /\ (\A i \in 1..8 : ~StageFails(i, pre, env, call.inp))) =>
              ret.val = PASS

\* without the decoder a 10,001 x 10,001 image was passed
C30_Witness ==
    /\ ValidateDone /\ ~env.hasPIL
    /\ Node(pre, ValidatedLoc).kind = "file"
    /\ Node(pre, ValidatedLoc).img.width = 10001
    /\ ~WithinBounds(Node(pre, ValidatedLoc).img)
    /\ ret.val = PASS

(***************************************************************************)
(* Handles (SpecHandles)                                                   *)
(***************************************************************************)
\* the steps the call has been through
Visited(s) == \E i \in 1..Len(log) : log[i] = s

\* C31: whatever way a call ends (validation failed before or after a file
\* was opened, the first method worked, the first failed and the fallback
\* ran, both failed), no handle the core opened is still open when it
\* returns, and none is open between calls.
C31_HandlesReleased ==
    pc \in {"idle", "done"} => handles = <<>>

\* remove_metadata returned after both methods had failed, the second one
\* while the input image and the output file were both open
C31_Witness ==
    /\ pc = "done" /\ call.op = "remove"
    /\ Visited("r_src_body") /\ Visited("r_image_body") /\ Visited("r_save_body")
    /\ handles = <<>>

(***************************************************************************)
(* Validation and use (SpecRace)                                           *)
(***************************************************************************)
\* a decode or strip step of the call in progress
UsesInput ==
    /\ pc \in {"x_primary", "x_fallback", "x_fileinfo", "r_primary", "r_fallback"}
    /\ log' # log

\* C32: at every decode and strip step the file under the input path is the
\* file validate_file_security approved in this call, and at every strip
\* step the output path does not resolve to the input, also when another
\* actor has replaced a file or retargeted a link since the validation.
C32_UsesTheValidatedFile ==
    [][UsesInput =>
          /\ Node(fs, Lookup(fs, call.inp)) = Node(pre, Lookup(pre, call.inp))
          /\ call.op = "remove" => Lookup(fs, call.out) # Lookup(fs, call.inp)]_vars

(***************************************************************************)
(* RateLimiter: the quota                                                  *)
(***************************************************************************)
\* the calls from..upto of the history that granted a request of identifier
Grants(identifier, from, upto) ==
    {i \in from..upto :
        log[i].op = "is_allowed" /\ log[i].id = identifier /\ log[i].res = TRUE}

\* the last reset of identifier among the first upto calls, 0 when none
LastReset(identifier, upto) ==
    LET resets == {i \in 1..upto : log[i].op = "reset" /\ log[i].id = identifier}
    IN IF resets = {} THEN 0 ELSE CHOOSE i \in resets : \A j \in resets : j <= i

\* call i lies within the window that ends at instant t
InWindow(i, t) == log[i].t <= t /\ t - log[i].t <= limiter.window_seconds

\* how many of the calls `grants` lie within the window that ends at t
Within(grants, t) == Cardinality({i \in grants : InWindow(i, t)})

IsAllowedCall(k, identifier) == log[k].op = "is_allowed" /\ log[k].id = identifier

\* C33 as stated: for every identifier and every instant, the requests
\* granted within the last window_seconds never exceed max_requests, and
\* is_allowed returns true exactly when fewer than max_requests granted
\* requests of that identifier lie within the window.
C33_QuotaPerWindow ==
    \A identifier \in Identifiers :
        /\ Within(Grants(identifier, 1, Len(log)), now) <= limiter.max_requests
        /\ \A k \in 1..Len(log) :
              IsAllowedCall(k, identifier) =>
                  (log[k].res <=>
                      Within(Grants(identifier, 1, k - 1), log[k].t) < limiter.max_requests)

\* C33 amended: the same, counting only the requests granted since the
\* identifier's last reset; a request exactly window_seconds old still
\* counts; the quota left to one identifier depends on its own requests only.
C33_QuotaSinceReset ==
    \A identifier \in Identifiers :
        /\ Within(Grants(identifier, LastReset(identifier, Len(log)) + 1, Len(log)), now)
              <= limiter.max_requests
        /\ \A k \in 1..Len(log) :
              IsAllowedCall(k, identifier) =>
                  (log[k].res <=>
                      Within(Grants(identifier, LastReset(identifier, k - 1) + 1, k - 1),
                             log[k].t) < limiter.max_requests)
        /\ IsAllowed(limiter, identifier, now).res <=>
              Within(Grants(identifier, LastReset(identifier, Len(log)) + 1, Len(log)), now)
                 < limiter.max_requests

\* an identifier was reset and then granted again, past max_requests within
\* one window
C33_Witness ==
    \E identifier \in Identifiers :
        /\ LastReset(identifier, Len(log)) > 0
        /\ Grants(identifier, LastReset(identifier, Len(log)) + 1, Len(log)) # {}
        /\ Within(Grants(identifier, 1, Len(log)), now) > limiter.max_requests

(***************************************************************************)
(* RateLimiter: what is recorded                                           *)
(***************************************************************************)
\* the instants of the calls `grants`, oldest first
TimesOf(grants) ==
    [j \in 1..Cardinality(grants) |->
        log[CHOOSE i \in grants : Cardinality({x \in grants : x <= i}) = j].t]

\* q is the end of s
IsSuffix(q, s) == Len(q) <= Len(s) /\ q = SubSeq(s, Len(s) - Len(q) + 1, Len(s))

GetRemainingCall(k, identifier) ==
    log[k].op = "get_remaining_requests" /\ log[k].id = identifier

\* C34: a denied is_allowed call and a get_remaining_requests call record
\* nothing: the time stamps kept for an identifier are those of its granted
\* requests since its last reset, and the ones no longer kept have left the
\* window; get_remaining_requests returns max_requests minus the granted
\* requests still inside the window, and is_allowed at the same instant
\* returns true iff that number is greater than 0.
C34_OnlyGrantsRecorded ==
    \A identifier \in Identifiers :
        LET granted == Grants(identifier, LastReset(identifier, Len(log)) + 1, Len(log))
            times == TimesOf(granted)
            kept == RequestQueue(limiter, identifier)
        IN /\ IsSuffix(kept, times)
           /\ \A j \in 1..(Len(times) - Len(kept)) : now - times[j] > limiter.window_seconds
           /\ \A k \in 1..Len(log) :
                 GetRemainingCall(k, identifier) =>
                     log[k].res = limiter.max_requests -
                         Within(Grants(identifier, LastReset(identifier, k - 1) + 1, k - 1),
                                log[k].t)
           /\ IsAllowed(limiter, identifier, now).res
                 <=> GetRemainingRequests(limiter, identifier, now).res > 0

\* an identifier was refused, and once the window had passed it was told
\* that its whole quota remains: the refusal has not delayed the moment it
\* is allowed again
C34_Witness ==
    \E identifier \in Identifiers, k \in 1..Len(log) :
        /\ k < Len(log)
        /\ IsAllowedCall(k, identifier) /\ ~log[k].res
        /\ GetRemainingCall(Len(log), identifier)
        /\ log[Len(log)].res = limiter.max_requests
        /\ LastReset(identifier, Len(log)) = 0
        /\ IsAllowed(limiter, identifier, now).res

(***************************************************************************)
(* SecurityHardening: operations in flight and the quota                   *)
(***************************************************************************)
\* C35: current_operations never exceeds max_concurrent_operations and never
\* goes below 0, however the callers' check_file_security, start_operation
\* and end_operation calls interleave.
C35_OperationsWithinCeiling ==
    current_operations >= 0 /\ current_operations <= max_concurrent_operations

\* the 'file_access' quota left
FileAccessQuota == GetRemainingRequests(limiter, "file_access", now).res

\* C36: a check_file_security call rejected because the file is blocked or
\* because the ceiling of concurrent operations is reached leaves the
\* 'file_access' quota unchanged.
C36_RejectedCallsKeepQuota ==
    [][\A c \in DOMAIN callers :
          (/\ callers[c].pc = "idle"
           /\ callers'[c].pc = "rejected"
           /\ callers'[c].res \in {FILE_BLOCKED, CEILING_REACHED})
          => FileAccessQuota' = FileAccessQuota]_vars

(***************************************************************************)
(* FileHashCache: size and order of use                                    *)
(***************************************************************************)
\* the last clear call, 0 when none
LastClear ==
    LET clears == {i \in 1..Len(log) : log[i].op = "clear"}
    IN IF clears = {} THEN 0 ELSE CHOOSE i \in clears : \A j \in clears : j <= i

\* the calls since the last clear that used a key: the hits and the misses
\* that hashed the file
Uses == {i \in (LastClear + 1)..Len(log) : log[i].op = "get_file_hash" /\ log[i].res # ""}

\* the last use of each key
LastUses == {i \in Uses : \A j \in Uses : j > i => log[j].key # log[i].key}

\* the keys of the calls `uses`, oldest first
KeysOf(uses) ==
    [j \in 1..Cardinality(uses) |->
        log[CHOOSE i \in uses : Cardinality({x \in uses : x <= i}) = j].key]

NoDuplicates(s) == \A i \in 1..Len(s), j \in 1..Len(s) : s[i] = s[j] => i = j

\* C37: after any sequence of get_file_hash and clear calls the cache holds
\* at most max_size entries, access_order holds exactly the cache's keys
\* with no duplicates, and the keys kept are the max_size most recently
\* used ones in the order of their last use: a miss at a full cache evicts
\* the least recently used key and a hit makes its key the most recent.
C37_LeastRecentlyUsedEvicted ==
    /\ Cardinality(DOMAIN cache.cache) <= cache.max_size
    /\ NoDuplicates(cache.access_order)
    /\ {cache.access_order[i] : i \in 1..Len(cache.access_order)} = DOMAIN cache.cache
    /\ cache.access_order = LastN(KeysOf(LastUses), cache.max_size)
    /\ \A i \in Uses : log[i].res = Sha256(CacheFiles[log[i].path].data)

\* a.jpg and b.jpg filled the cache, a hit made a.jpg the most recent, and
\* the miss for c.jpg then evicted b.jpg
C37_Witness ==
    /\ Len(log) = 4
    /\ LastClear = 0
    /\ log[1].path = "a.jpg" /\ ~log[1].hit
    /\ log[2].path = "b.jpg" /\ ~log[2].hit
    /\ log[3].path = "a.jpg" /\ log[3].hit
    /\ log[4].path = "c.jpg" /\ ~log[4].hit
    /\ cache.access_order = <<FileKey(CacheFiles, "a.jpg"), FileKey(CacheFiles, "c.jpg")>>
    /\ FileKey(CacheFiles, "b.jpg") \notin DOMAIN cache.cache

(***************************************************************************)
(* SecurityMonitor: when a file is blocked                                 *)
(***************************************************************************)
\* the retained events of the path within the last 300 seconds
EventsFor(file_path) == Cardinality(RecentEvents(monitor.suspicious_events, file_path, now))

Blocked(file_path) == IsFileBlocked(monitor, file_path)

\* this step is the call op(file_path)
Called(op, file_path) ==
    /\ budget' = budget - 1
    /\ log'[Len(log')].op = op
    /\ log'[Len(log')].path = file_path

\* once blocked a file stays blocked until unblock_file is called for it,
\* and while it is blocked (is_file_blocked true) check_file_security
\* rejects it
StaysBlocked(file_path) ==
    /\ (Blocked(file_path) /\ ~Blocked(file_path)') => Called("unblock_file", file_path)
    /\ (Blocked(file_path) /\ Called("check_file_security", file_path))
          => log'[Len(log')].res = FILE_BLOCKED

\* C38 as stated: a file becomes blocked exactly at the log_suspicious_event
\* call that brings the number of retained events for that path within the
\* last 300 seconds to 5.
C38_BlockedAtFive ==
    [][\A file_path \in MonitorPaths :
          /\ (~Blocked(file_path) /\ Blocked(file_path)')
                <=> (/\ ~Blocked(file_path)
                     /\ Called("log_suspicious_event", file_path)
                     /\ EventsFor(file_path)' = warning_threshold)
          /\ StaysBlocked(file_path)]_vars

\* C38 amended: a file that is not blocked becomes blocked exactly at a
\* log_suspicious_event call for that path after which 5 or more retained
\* events of that path lie within the last 300 seconds (more than 5 when the
\* file was unblocked in between); it then stays blocked until unblock_file
\* is called for it; events for other paths never block it.
C38_BlockedFromFive ==
    [][\A file_path \in MonitorPaths :
          /\ (~Blocked(file_path) /\ Blocked(file_path)')
                <=> (/\ ~Blocked(file_path)
                     /\ Called("log_suspicious_event", file_path)
                     /\ EventsFor(file_path)' >= warning_threshold)
          /\ StaysBlocked(file_path)]_vars

\* a file was unblocked and the next event for it, its sixth within 300
\* seconds, has blocked it again; the other path is not blocked
C38_Witness ==
    \E file_path \in MonitorPaths :
        /\ Len(log) = 2
        /\ log[1].op = "unblock_file" /\ log[1].path = file_path
        /\ log[2].op = "log_suspicious_event" /\ log[2].path = file_path
        /\ EventsFor(file_path) = warning_threshold + 1
        /\ Blocked(file_path)
        /\ \A other \in MonitorPaths \ {file_path} : ~Blocked(other)

(***************************************************************************)
(* The window: which image a save dialog strips                            *)
(***************************************************************************)
\* C39: the clean copy written in response to a save dialog is a copy of the
\* image that was current when that dialog was opened, and remove_metadata
\* is never called with an unset input path, however drop events interleave
\* with an open dialog's response.
C39_SavesTheImageAskedFor ==
    \A k \in 1..Len(log) : log[k].input = log[k].asked /\ log[k].input # NoneP

====
